---- MODULE Spec2Model ----
(***************************************************************************)
(* A model of the Vitest coverage MCP server: the test-file generator,     *)
(* the coverage analyzer's zero-count filter, the coverage diff, the       *)
(* setup tool, the plugin loader and the HTTP handlers.                    *)
(*                                                                         *)
(* A file name is a sequence of its dot-separated pieces, "App.test.tsx"   *)
(* is <<"App", "test", "tsx">>; a path is a sequence of such names.        *)
(***************************************************************************)
EXTENDS Integers, Sequences, FiniteSets, TLC

VARIABLES
    \* the project's file system
    fs,         \* file path -> content, for the files that exist
    dirs,       \* the directories that exist
    fs0,        \* fs as it was when the running call started
    \* generateTests
    projectRoot, uncoveredFiles, tasks, phase, returned,
    \* setupVitest
    setupPc, setupResult, installCmd,
    \* analyzeCoverage
    coverage, uncovered, covPc,
    \* computeDiff
    base, current, diff, diffPc,
    \* loadPlugins
    dirExists, pluginFiles, pluginIdx, routerCalls, loaderPc,
    \* the HTTP layer and the LLM service singleton
    config, provider, req, resp, effects, nreq,
    \* startup: the process environment and mcp.config.json
    environment, configFile, startPc,
    \* requests in flight on one project directory
    artifacts, flights, lastWriter,
    \* the documented workflow loop of a client
    loopPc, tested, covers, skeleton, listed,
    \* profileTests
    profPc, testResults, profile,
    \* generateAITests
    aiPc, aiVariant, aiEntries, aiIdx, generatedFiles, sources,
    \* generateTests called again
    repeats,
    \* generateCoverageDiff and the repository
    gitPc, branch, prevBranch, startBranch, baseBranch, branches,
    \* MLXProvider.generateCompletion: the script file and the calls in progress
    mlxScript, mlxCalls,
    \* generateCoverageBadge and generateDiffSummary
    reportDone, badge, summary

fsVars == <<fs, dirs, fs0>>
genVars == <<projectRoot, uncoveredFiles, tasks, phase, returned>>
setupVars == <<setupPc, setupResult, installCmd>>
covVars == <<coverage, uncovered, covPc>>
diffVars == <<base, current, diff, diffPc>>
plugVars == <<dirExists, pluginFiles, pluginIdx, routerCalls, loaderPc>>
httpVars == <<config, provider, req, resp, effects, nreq>>
cfgVars == <<environment, configFile, startPc>>
raceVars == <<artifacts, flights, lastWriter>>
loopVars == <<loopPc, tested, covers, skeleton, listed>>
profVars == <<profPc, testResults, profile>>
aiVars == <<aiPc, aiVariant, aiEntries, aiIdx, generatedFiles, sources>>
againVars == <<repeats>>
gitVars == <<gitPc, branch, prevBranch, startBranch, baseBranch, branches>>
mlxVars == <<mlxScript, mlxCalls>>
reportVars == <<reportDone, badge, summary>>
laterVars == <<cfgVars, raceVars, loopVars, profVars, aiVars, againVars, gitVars, mlxVars, reportVars>>
vars == <<fsVars, genVars, setupVars, covVars, diffVars, plugVars, httpVars, laterVars>>

notGen == <<setupVars, covVars, diffVars, plugVars, httpVars, laterVars>>
notSetup == <<genVars, covVars, diffVars, plugVars, httpVars, laterVars>>
notCov == <<fsVars, genVars, setupVars, diffVars, plugVars, httpVars, laterVars>>
notDiff == <<fsVars, genVars, setupVars, covVars, plugVars, httpVars, laterVars>>
notPlug == <<fsVars, genVars, setupVars, covVars, diffVars, httpVars, laterVars>>
notHttp == <<fsVars, genVars, setupVars, covVars, diffVars, plugVars, laterVars>>

notCfg == <<fsVars, genVars, setupVars, covVars, diffVars, plugVars, raceVars, loopVars, profVars, aiVars, againVars, gitVars, mlxVars, reportVars>>
notRace == <<fsVars, genVars, setupVars, covVars, diffVars, plugVars, httpVars, cfgVars, loopVars, profVars, aiVars, againVars, gitVars, mlxVars, reportVars>>
notLoop == <<fsVars, genVars, setupVars, covVars, diffVars, plugVars, httpVars, cfgVars, raceVars, profVars, aiVars, againVars, gitVars, mlxVars, reportVars>>
notProf == <<fsVars, genVars, setupVars, covVars, diffVars, plugVars, httpVars, cfgVars, raceVars, loopVars, aiVars, againVars, gitVars, mlxVars, reportVars>>
notAi == <<fsVars, genVars, setupVars, covVars, diffVars, plugVars, httpVars, cfgVars, raceVars, loopVars, profVars, againVars, gitVars, mlxVars, reportVars>>
notAgain == <<fsVars, genVars, setupVars, covVars, diffVars, plugVars, httpVars, cfgVars, raceVars, loopVars, profVars, aiVars, gitVars, mlxVars, reportVars>>
notGit == <<fsVars, genVars, setupVars, covVars, diffVars, plugVars, httpVars, cfgVars, raceVars, loopVars, profVars, aiVars, againVars, mlxVars, reportVars>>
notMlx == <<fsVars, genVars, setupVars, covVars, diffVars, plugVars, httpVars, cfgVars, raceVars, loopVars, profVars, aiVars, againVars, gitVars, reportVars>>
notReport == <<fsVars, genVars, setupVars, covVars, diffVars, plugVars, httpVars, cfgVars, raceVars, loopVars, profVars, aiVars, againVars, gitVars, mlxVars>>

NULL == "null"

\* the parts of the state a specification does not use stay as they are here
FsIdle == fs = <<>> /\ dirs = {} /\ fs0 = <<>>

GenIdle ==
    /\ projectRoot = <<>> /\ uncoveredFiles = <<>> /\ tasks = <<>>
    /\ phase = "off" /\ returned = <<>>

SetupIdle == setupPc = "off" /\ setupResult = NULL /\ installCmd = NULL

CovIdle == coverage = <<>> /\ uncovered = <<>> /\ covPc = "off"

DiffIdle == base = <<>> /\ current = <<>> /\ diff = <<>> /\ diffPc = "off"

PlugIdle ==
    dirExists = FALSE /\ pluginFiles = <<>> /\ pluginIdx = 0 /\ routerCalls = <<>> /\ loaderPc = "off"

HttpIdle ==
    /\ config = NULL /\ provider = NULL /\ req = NULL /\ resp = NULL
    /\ effects = <<>> /\ nreq = -1

CfgIdle == environment = <<>> /\ configFile = NULL /\ startPc = "off"

RaceIdle == artifacts = <<>> /\ flights = <<>> /\ lastWriter = 0

LoopIdle == loopPc = "off" /\ tested = {} /\ covers = <<>> /\ skeleton = <<>> /\ listed = <<>>

ProfIdle == profPc = "off" /\ testResults = <<>> /\ profile = <<>>

AiIdle == aiPc = "off" /\ aiVariant = NULL /\ aiEntries = <<>> /\ aiIdx = 0 /\ generatedFiles = <<>> /\ sources = {}

AgainIdle == repeats = 0

GitIdle == gitPc = "off" /\ branch = NULL /\ prevBranch = NULL /\ startBranch = NULL /\ baseBranch = NULL /\ branches = {}

MlxIdle == mlxScript = NULL /\ mlxCalls = <<>>

ReportIdle == reportDone = {} /\ badge = <<>> /\ summary = <<>>

LaterIdle == CfgIdle /\ RaceIdle /\ LoopIdle /\ ProfIdle /\ AiIdle /\ AgainIdle /\ GitIdle /\ MlxIdle /\ ReportIdle

\* all of them but the one group a specification uses
LaterIdleBut(g) ==
    /\ IF g = "cfg" THEN TRUE ELSE CfgIdle
    /\ IF g = "race" THEN TRUE ELSE RaceIdle
    /\ IF g = "loop" THEN TRUE ELSE LoopIdle
    /\ IF g = "prof" THEN TRUE ELSE ProfIdle
    /\ IF g = "ai" THEN TRUE ELSE AiIdle
    /\ IF g = "again" THEN TRUE ELSE AgainIdle
    /\ IF g = "git" THEN TRUE ELSE GitIdle
    /\ IF g = "mlx" THEN TRUE ELSE MlxIdle
    /\ IF g = "report" THEN TRUE ELSE ReportIdle

\* ------------------------------------------------------------------ bounds
MaxFiles == 2
MaxCount == 1
MaxArms == 2
MaxPluginFiles == 2
MaxRequests == 2
MaxFlights == 2
MaxTests == 5
MaxEntries == 6
MaxReadEntries == 2
MaxCalls == 3
MaxMlxCalls == 2

\* ------------------------------------------------------------- sequences
Range(s) == {s[i] : i \in 1..Len(s)}

SeqsUpTo(S, n) == UNION {[1..k -> S] : k \in 0..n}

Last(s) == s[Len(s)]

Front(s) == SubSeq(s, 1, Len(s) - 1)

\* ------------------------------------------------------------ node's path
Up == <<"..">>

\* path.normalize of an absolute path: ".." removes the segment before it
RECURSIVE NormalizeAbs(_)
NormalizeAbs(p) ==
    IF p = <<>> THEN <<>>
    ELSE LET init == NormalizeAbs(Front(p))
         IN IF Last(p) = Up
            THEN (IF init = <<>> THEN <<>> ELSE Front(init))
            ELSE Append(init, Last(p))

\* path.join(a, b): concatenate and normalize
Join(a, b) == NormalizeAbs(a \o b)

RECURSIVE CommonPrefixLen(_, _)
CommonPrefixLen(a, b) ==
    IF a = <<>> \/ b = <<>> \/ Head(a) # Head(b) THEN 0
    ELSE 1 + CommonPrefixLen(Tail(a), Tail(b))

\* path.relative(from, to) of two absolute paths (both are resolved first)
Relative(from, to) ==
    LET f == NormalizeAbs(from)
        t == NormalizeAbs(to)
        k == CommonPrefixLen(f, t)
    IN [i \in 1..(Len(f) - k) |-> Up] \o SubSeq(t, k + 1, Len(t))

\* path.dirname of a relative path; <<>> stands for "."
Dirname(p) == IF p = <<>> THEN <<>> ELSE Front(p)

\* path.extname: the last piece of the last name, "" when there is none
Extname(p) ==
    IF p = <<>> THEN ""
    ELSE LET n == Last(p)
         IN IF Len(n) >= 2 /\ ~(Len(n) = 2 /\ n[1] = "") THEN Last(n) ELSE ""

\* path.basename(p, ext) with ext = path.extname(p)
Basename(p) ==
    LET n == Last(p) IN IF Extname(p) = "" THEN n ELSE Front(n)

\* String.startsWith('.') of a relative path: ".." or a name with a leading dot
StartsWithDot(p) == p # <<>> /\ (Head(p) = Up \/ Head(p)[1] = "")

\* every directory on the way to d, d included
Ancestors(d) == {SubSeq(d, 1, k) : k \in 0..Len(d)}

\* a check that sees directories only
PathExistsDirsOnly(p) == p \in dirs

\* fs.pathExists
PathExists(p) == p \in DOMAIN fs \/ p \in dirs

\* --------------------------------------------------------- generateTests
Root == << <<"w">>, <<"p">> >>

TestsDirName == <<"__tests__">>

SupportedExts == {"tsx", "jsx", "js", "ts"}

\* the paths a caller hands in: relative to the project root or absolute
InputPaths ==
    { [abs |-> FALSE, segs |-> << <<"src">>, <<"App", "tsx">> >>],
      [abs |-> TRUE,  segs |-> << <<"w">>, <<"p">>, <<"src">>, <<"App", "tsx">> >>],
      [abs |-> FALSE, segs |-> << <<"util", "ts">> >>],
      [abs |-> FALSE, segs |-> << <<"README", "md">> >>],
      [abs |-> TRUE,  segs |-> << <<"w">>, <<"o">>, <<"x", "js">> >>],
      [abs |-> FALSE, segs |-> << Up, <<"o">>, <<"x", "js">> >>] }

UserContent == [kind |-> "user"]

\* test files a user may have written before the call
UserTestFiles ==
    { << <<"w">>, <<"p">>, TestsDirName, <<"src">>, <<"App", "test", "tsx">> >>,
      << <<"w">>, <<"p">>, TestsDirName, <<"util", "test", "ts">> >> }

\* const absPath = path.isAbsolute(filePath) ? filePath : path.join(projectRoot, filePath)
AbsPath(root, f) == IF f.abs THEN f.segs ELSE Join(root, f.segs)

\* a test directory that does not mirror the source tree
TestDirFlat(root, f) == Join(root, <<TestsDirName>>)

\* const testDir = path.join(projectRoot, '__tests__', path.dirname(relative))
TestDir(root, f) ==
    Join(root, <<TestsDirName>> \o Dirname(Relative(root, AbsPath(root, f))))

\* const testFile = path.join(testDir, `${componentName}.test${ext}`)
TestFile(root, f) ==
    LET a == AbsPath(root, f)
    IN Append(TestDir(root, f), Basename(a) \o <<"test", Extname(a)>>)

\* the generated file: the component name and the import specifier
Template(root, f) ==
    LET a == AbsPath(root, f)
        importPath == Relative(TestDir(root, f), a)
    IN [kind |-> "template",
        component |-> Basename(a),
        dotSlash |-> ~StartsWithDot(importPath),
        importPath |-> importPath]

\* what a task that returns null holds as its result
NoPath == <<>>

\* the synchronous head of the map callback, up to the first await
StartTask(root, f) ==
    IF Extname(AbsPath(root, f)) \notin SupportedExts
    THEN [input |-> f, pc |-> "done", result |-> NoPath]
    ELSE [input |-> f, pc |-> "ensureDir", result |-> NoPath]

\* generateTests(projectRoot, uncoveredFiles) is called: every callback runs to
\* its first await
CallGenerateTests ==
    /\ phase = "idle"
    /\ phase' = "running"
    /\ tasks' = [i \in 1..Len(uncoveredFiles) |-> StartTask(projectRoot, uncoveredFiles[i])]
    /\ fs0' = fs
    /\ UNCHANGED <<fs, dirs, projectRoot, uncoveredFiles, returned, notGen>>

\* await fs.ensureDir(testDir): fails when a file is in the way
TaskEnsureDir(i) ==
    /\ phase \in {"running", "threw"}
    /\ tasks[i].pc = "ensureDir"
    /\ LET d == TestDir(projectRoot, tasks[i].input)
       IN IF Ancestors(d) \cap DOMAIN fs # {}
          THEN /\ tasks' = [tasks EXCEPT ![i].pc = "failed"]
               /\ UNCHANGED dirs
          ELSE /\ dirs' = dirs \cup Ancestors(d)
               /\ tasks' = [tasks EXCEPT ![i].pc = "pathExists"]
    /\ UNCHANGED <<fs, fs0, projectRoot, uncoveredFiles, phase, returned, notGen>>

\* if (await fs.pathExists(testFile)) return null
TaskPathExists(i) ==
    /\ phase \in {"running", "threw"}
    /\ tasks[i].pc = "pathExists"
    /\ tasks' = [tasks EXCEPT ![i].pc =
                    IF PathExists(TestFile(projectRoot, tasks[i].input))
                    THEN "done" ELSE "writeFile"]
    /\ UNCHANGED <<fsVars, projectRoot, uncoveredFiles, phase, returned, notGen>>

\* await fs.writeFile(testFile, template); return testFile
TaskWriteFile(i) ==
    /\ phase \in {"running", "threw"}
    /\ tasks[i].pc = "writeFile"
    /\ LET t == TestFile(projectRoot, tasks[i].input)
       IN IF t \in dirs
          THEN /\ tasks' = [tasks EXCEPT ![i].pc = "failed"]
               /\ UNCHANGED fs
          ELSE /\ fs' = [p \in DOMAIN fs \cup {t} |->
                            IF p = t THEN Template(projectRoot, tasks[i].input) ELSE fs[p]]
               /\ tasks' = [tasks EXCEPT ![i].pc = "done", ![i].result = t]
    /\ UNCHANGED <<dirs, fs0, projectRoot, uncoveredFiles, phase, returned, notGen>>

\* results.filter(Boolean), in input order
RECURSIVE FilterResults(_)
FilterResults(ts) ==
    IF ts = <<>> THEN <<>>
    ELSE IF Head(ts).result = NoPath THEN FilterResults(Tail(ts))
         ELSE <<Head(ts).result>> \o FilterResults(Tail(ts))

\* await Promise.all(testPromises): rejects with the first failure, else resolves
\* when every task has
SettleGenerateTests ==
    /\ phase = "running"
    /\ IF \E i \in 1..Len(tasks) : tasks[i].pc = "failed"
       THEN /\ phase' = "threw"
            /\ UNCHANGED returned
       ELSE /\ \A i \in 1..Len(tasks) : tasks[i].pc = "done"
            /\ phase' = "returned"
            /\ returned' = FilterResults(tasks)
    /\ UNCHANGED <<fsVars, projectRoot, uncoveredFiles, tasks, notGen>>

GenNext ==
    \/ CallGenerateTests
    \/ \E i \in 1..Len(tasks) : TaskEnsureDir(i)
    \/ \E i \in 1..Len(tasks) : TaskPathExists(i)
    \/ \E i \in 1..Len(tasks) : TaskWriteFile(i)
    \/ SettleGenerateTests

\* a project with some user-written tests, and a list of files to cover
GenInit ==
    /\ projectRoot = Root
    /\ uncoveredFiles \in SeqsUpTo(InputPaths, MaxFiles)
    /\ \E S \in SUBSET UserTestFiles :
          /\ fs = [p \in S |-> UserContent]
          /\ dirs = Ancestors(Root) \cup UNION {Ancestors(Front(p)) : p \in S}
    /\ fs0 = fs
    /\ tasks = <<>>
    /\ phase = "idle"
    /\ returned = <<>>
    /\ SetupIdle /\ CovIdle /\ DiffIdle /\ PlugIdle /\ HttpIdle
    /\ LaterIdle

SpecGen == GenInit /\ [][GenNext]_vars

\* C1: a test file that exists when generateTests is called is never written by
\* the call: it keeps its content, and it is not among the returned paths.
C1_NeverOverwrites ==
    phase \in {"running", "returned", "threw"} =>
        \A p \in DOMAIN fs0 :
            /\ p \in DOMAIN fs
            /\ fs[p] = fs0[p]
            /\ (phase = "returned" => p \notin Range(returned))

\* the call has returned after skipping an input whose test file existed, and
\* after writing another
C1_Witness ==
    /\ phase = "returned"
    /\ \E i \in 1..Len(tasks) :
          TestFile(projectRoot, tasks[i].input) \in DOMAIN fs0
    /\ returned # <<>>

\* ------------------------------------------------------- analyzeCoverage
\* The coverage artifact: file -> an object that may have s (statement id ->
\* hit count), b (branch id -> hit counts, one per arm) and f (function id ->
\* hit count). Objects are functions; a missing key is outside the domain.
StmtIds == {"0", "1"}
BranchIds == {"0"}
FnIds == {"0"}

\* Object.keys order of integer-like keys, and of the files of the artifact
IdOrder == <<"0", "1">>
FileOrder == <<"a.ts", "b.ts">>

Counts == 0..MaxCount

CountMaps(ids) == UNION {[I -> Counts] : I \in SUBSET ids}

ArmMaps(ids) == UNION {[I -> SeqsUpTo(Counts, MaxArms)] : I \in SUBSET ids}

\* an object with the given fields; any of them may be missing
Optional(S, B, F) ==
    { [k \in K |-> IF k = "s" THEN s ELSE IF k = "b" THEN b ELSE f] :
        K \in SUBSET {"s", "b", "f"}, s \in S, b \in B, f \in F }

FileData == Optional(CountMaps(StmtIds), ArmMaps(BranchIds), CountMaps(FnIds))

\* a second file of the artifact: covered, partly covered, or without counts
SecondFileData ==
    { [s |-> [i \in {"0"} |-> 1], b |-> [i \in {"0"} |-> <<1, 1>>], f |-> [i \in {"0"} |-> 1]],
      [s |-> [i \in {"0"} |-> 0], b |-> [i \in {"0"} |-> <<0, 1>>], f |-> [i \in {"0"} |-> 0]],
      [x \in {} |-> 0] }

CoverageMaps ==
    { [file \in F |-> IF file = "a.ts" THEN a ELSE b] :
        F \in SUBSET {"a.ts", "b.ts"}, a \in FileData, b \in SecondFileData }

\* data.s || {}
Field(data, k) == IF k \in DOMAIN data THEN data[k] ELSE <<>>

\* the keys of an object, in Object.keys order
Keys(obj, order) == SelectSeq(order, LAMBDA k : k \in DOMAIN obj)

\* counts.every(c => c === 0)
EveryZero(counts) == \A i \in 1..Len(counts) : counts[i] = 0

\* (counts as number[]).some(c => c === 0)
SomeZero(counts) == \E i \in 1..Len(counts) : counts[i] = 0

\* uncovered.push({ file, type, id }) for each of the ids, in order
Pushed(file, type, ids) ==
    [i \in 1..Len(ids) |-> [file |-> file, type |-> type, id |-> ids[i]]]

\* one turn of the loop over the files: statements, then branches, then functions
UncoveredOfFile(file, data) ==
    LET s == Field(data, "s")
        b == Field(data, "b")
        f == Field(data, "f")
    IN Pushed(file, "statement", SelectSeq(Keys(s, IdOrder), LAMBDA k : s[k] = 0))
       \o Pushed(file, "branch", SelectSeq(Keys(b, IdOrder), LAMBDA k : SomeZero(b[k])))
       \o Pushed(file, "function", SelectSeq(Keys(f, IdOrder), LAMBDA k : f[k] = 0))

RECURSIVE UncoveredOfFiles(_, _)
UncoveredOfFiles(cov, files) ==
    IF files = <<>> THEN <<>>
    ELSE UncoveredOfFile(Head(files), cov[Head(files)])
         \o UncoveredOfFiles(cov, Tail(files))

\* for (const file of Object.keys(coverage)) ...
Uncovered(cov) == UncoveredOfFiles(cov, Keys(cov, FileOrder))

\* analyzeCoverage(projectRoot): run the test runner, read the artifact, filter.
\* The runner may fail, and the artifact may be missing or not JSON.
AnalyzeCoverage ==
    /\ covPc = "idle"
    /\ \E execError \in BOOLEAN, readable \in BOOLEAN :
          IF execError
          THEN covPc' = "rejectedExec" /\ UNCHANGED uncovered
          ELSE IF ~readable
               THEN covPc' = "rejectedRead" /\ UNCHANGED uncovered
               ELSE covPc' = "resolved" /\ uncovered' = Uncovered(coverage)
    /\ UNCHANGED <<coverage, notCov>>

CovNext == AnalyzeCoverage

CovInit ==
    /\ coverage \in CoverageMaps
    /\ uncovered = <<>>
    /\ covPc = "idle"
    /\ FsIdle /\ GenIdle /\ SetupIdle /\ DiffIdle /\ PlugIdle /\ HttpIdle
    /\ LaterIdle

SpecCov == CovInit /\ [][CovNext]_vars

\* the uncovered items of a coverage map, stated item by item
ZeroItems(cov) ==
    LET Ids == StmtIds \cup BranchIds \cup FnIds
        Has(x, k) == k \in DOMAIN cov[x.file] /\ x.id \in DOMAIN cov[x.file][k]
    IN { x \in [file : DOMAIN cov, type : {"statement"}, id : Ids] :
            Has(x, "s") /\ cov[x.file]["s"][x.id] = 0 }
       \cup
       { x \in [file : DOMAIN cov, type : {"function"}, id : Ids] :
            Has(x, "f") /\ cov[x.file]["f"][x.id] = 0 }
       \cup
       { x \in [file : DOMAIN cov, type : {"branch"}, id : Ids] :
            Has(x, "b") /\ 0 \in Range(cov[x.file]["b"][x.id]) }

\* C2: the uncovered list holds exactly the statements and functions whose count
\* is 0 and the branches with a 0 among their counts, each once.
C2_ZeroCountFilter ==
    covPc = "resolved" =>
        /\ Range(uncovered) = ZeroItems(coverage)
        /\ Len(uncovered) = Cardinality(ZeroItems(coverage))

\* an artifact with a partly covered branch, a covered statement and a file
\* without function counts has been filtered
C2_Witness ==
    /\ covPc = "resolved"
    /\ \E file \in DOMAIN coverage :
          /\ DOMAIN coverage[file] = {"s", "b"}
          /\ \E id \in DOMAIN coverage[file]["b"] :
                Range(coverage[file]["b"][id]) = {0, 1}
          /\ \E id \in DOMAIN coverage[file]["s"] : coverage[file]["s"][id] = 1
    /\ uncovered # <<>>

\* ------------------------------------------------------------ computeDiff
\* JavaScript values: a number, NaN, a string (a sequence of characters) or an
\* array of numbers.
Num(n) == [t |-> "number", v |-> n]

NaN == [t |-> "NaN"]

Str(cs) == [t |-> "string", v |-> cs]

Arr(xs) == [t |-> "array", v |-> xs]

DigitChars == <<"0", "1", "2", "3", "4", "5", "6", "7", "8", "9">>

\* Number.prototype.toString of a non-negative integer
RECURSIVE Digits(_)
Digits(n) ==
    IF n < 10 THEN <<DigitChars[n + 1]>>
    ELSE Digits(n \div 10) \o <<DigitChars[(n % 10) + 1]>>

\* Array.prototype.join(',') of an array of numbers
RECURSIVE JoinComma(_)
JoinComma(xs) ==
    IF xs = <<>> THEN <<>>
    ELSE IF Len(xs) = 1 THEN Digits(xs[1])
         ELSE Digits(xs[1]) \o <<",">> \o JoinComma(Tail(xs))

\* ToString
ToStr(x) ==
    IF x.t = "string" THEN x.v
    ELSE IF x.t = "array" THEN JoinComma(x.v)
         ELSE IF x.t = "NaN" THEN <<"N", "a", "N">>
              ELSE IF x.v < 0 THEN <<"-">> \o Digits(-x.v) ELSE Digits(x.v)

\* the value of a string of decimal digits
RECURSIVE DecimalValue(_)
DecimalValue(cs) ==
    IF cs = <<>> THEN 0
    ELSE 10 * DecimalValue(Front(cs))
         + (CHOOSE d \in 0..9 : DigitChars[d + 1] = Last(cs))

\* ToNumber: "" is 0, a string of digits is its value, any other string is NaN
ToNum(x) ==
    IF x.t \in {"number", "NaN"} THEN x
    ELSE LET cs == ToStr(x)
         IN IF Range(cs) \subseteq Range(DigitChars) THEN Num(DecimalValue(cs))
            ELSE IF Len(cs) >= 2 /\ Head(cs) = "-" /\ Range(Tail(cs)) \subseteq Range(DigitChars)
                 THEN Num(-DecimalValue(Tail(cs)))
                 ELSE NaN

\* a + b: numeric when both are numbers, string concatenation otherwise
JsAdd(a, b) ==
    IF a.t \in {"string", "array"} \/ b.t \in {"string", "array"}
    THEN Str(ToStr(a) \o ToStr(b))
    ELSE IF a.t = "NaN" \/ b.t = "NaN" THEN NaN ELSE Num(a.v + b.v)

\* a - b: always numeric
JsSub(a, b) ==
    LET x == ToNum(a)
        y == ToNum(b)
    IN IF x.t = "NaN" \/ y.t = "NaN" THEN NaN ELSE Num(x.v - y.v)

\* Object.keys in the place of Object.values: the ids, which are strings
KeysAsValues(obj) ==
    LET ks == Keys(obj, IdOrder) IN [i \in 1..Len(ks) |-> Str(<<ks[i]>>)]

\* Object.values of a statement map: numbers, in Object.values order
NumValues(obj) ==
    LET ks == Keys(obj, IdOrder) IN [i \in 1..Len(ks) |-> Num(obj[ks[i]])]

\* Object.values of a branch map: arrays of numbers
ArrValues(obj) ==
    LET ks == Keys(obj, IdOrder) IN [i \in 1..Len(ks) |-> Arr(obj[ks[i]])]

\* vals.reduce((a, b) => a + (b as number), 0)
RECURSIVE ReduceAdd(_)
ReduceAdd(vals) ==
    IF vals = <<>> THEN Num(0)
    ELSE JsAdd(ReduceAdd(Front(vals)), Last(vals))

\* base[f]?.s ?? {}
FieldOf(cov, f, k) ==
    IF f \in DOMAIN cov /\ k \in DOMAIN cov[f] THEN cov[f][k] ELSE <<>>

\* computeDiff(base, current)
ComputeDiffOf(b, c) ==
    [f \in DOMAIN b \cup DOMAIN c |->
        LET baseCovered == ReduceAdd(NumValues(FieldOf(b, f, "s")))
            curCovered == ReduceAdd(NumValues(FieldOf(c, f, "s")))
            baseB == FieldOf(b, f, "b")
            curB == FieldOf(c, f, "b")
        IN [baseStatements |-> baseCovered,
            currentStatements |-> curCovered,
            statementChange |-> JsSub(curCovered, baseCovered),
            baseBranches |-> ReduceAdd(ArrValues(baseB)),
            currentBranches |-> ReduceAdd(ArrValues(curB)),
            branchChange |-> JsSub(ReduceAdd(ArrValues(curB)), ReduceAdd(ArrValues(baseB)))]]

\* const diff = computeDiff(baseCov, currentCov)
ComputeDiff ==
    /\ diffPc = "idle"
    /\ diff' = ComputeDiffOf(base, current)
    /\ diffPc' = "done"
    /\ UNCHANGED <<base, current, notDiff>>

DiffNext == ComputeDiff

\* the coverage of one file as both runs may report it
DiffFileData ==
    { [k \in {"s", "b"} |-> IF k = "s" THEN s ELSE b] :
        s \in CountMaps(StmtIds), b \in ArmMaps(BranchIds) }
    \cup {[x \in {} |-> 0]}

DiffMaps ==
    { [file \in F |-> IF file = "a.ts" THEN a
                      ELSE [s |-> [i \in {"0"} |-> 1], b |-> [i \in {"0"} |-> <<1, 0>>]]] :
        F \in SUBSET {"a.ts", "b.ts"}, a \in DiffFileData }

DiffInit ==
    /\ base \in DiffMaps
    /\ current \in DiffMaps
    /\ diff = <<>>
    /\ diffPc = "idle"
    /\ FsIdle /\ GenIdle /\ SetupIdle /\ CovIdle /\ PlugIdle /\ HttpIdle
    /\ LaterIdle

SpecDiff == DiffInit /\ [][DiffNext]_vars

\* the sum of the numbers of a set of positions of a sequence
RECURSIVE SumAt(_, _)
SumAt(xs, I) ==
    IF I = {} THEN 0
    ELSE LET i == CHOOSE j \in I : TRUE IN xs[i] + SumAt(xs, I \ {i})

\* the sum of the hit counts of the statements of a file; 0 without the file
RECURSIVE SumCounts(_, _)
SumCounts(m, I) ==
    IF I = {} THEN 0
    ELSE LET i == CHOOSE j \in I : TRUE IN m[i] + SumCounts(m, I \ {i})

StatementHits(cov, f) ==
    IF f \in DOMAIN cov /\ "s" \in DOMAIN cov[f]
    THEN SumCounts(cov[f]["s"], DOMAIN cov[f]["s"]) ELSE 0

\* the sum of the hit counts of all arms of all branches of a file
RECURSIVE SumArms(_, _)
SumArms(m, I) ==
    IF I = {} THEN 0
    ELSE LET i == CHOOSE j \in I : TRUE
         IN SumAt(m[i], DOMAIN m[i]) + SumArms(m, I \ {i})

BranchHits(cov, f) ==
    IF f \in DOMAIN cov /\ "b" \in DOMAIN cov[f]
    THEN SumArms(cov[f]["b"], DOMAIN cov[f]["b"]) ELSE 0

\* C7: the diff has one entry per file of base or current; its statement
\* aggregates are the sums of the statement hit counts, and their difference.
C7_StatementAggregates ==
    diffPc = "done" =>
        /\ DOMAIN diff = DOMAIN base \cup DOMAIN current
        /\ \A f \in DOMAIN diff :
              /\ diff[f].baseStatements = Num(StatementHits(base, f))
              /\ diff[f].currentStatements = Num(StatementHits(current, f))
              /\ diff[f].statementChange =
                    Num(StatementHits(current, f) - StatementHits(base, f))

\* a diff of a file that lost hits, over two statements, and of a file that
\* only the current run reports
C7_Witness ==
    /\ diffPc = "done"
    /\ \E f \in DOMAIN diff :
          /\ f \in DOMAIN base /\ "s" \in DOMAIN base[f]
          /\ Cardinality(DOMAIN base[f]["s"]) = 2
          /\ diff[f].statementChange.v < 0
    /\ \E f \in DOMAIN diff : f \notin DOMAIN base /\ diff[f].currentStatements.v > 0

\* C8: the branch aggregates are the integer sums of all arm counts of the
\* file's branches, and branchChange is their integer difference.
C8_BranchAggregates ==
    diffPc = "done" =>
        \A f \in DOMAIN diff :
            /\ diff[f].baseBranches = Num(BranchHits(base, f))
            /\ diff[f].currentBranches = Num(BranchHits(current, f))
            /\ diff[f].branchChange = Num(BranchHits(current, f) - BranchHits(base, f))

\* ------------------------------------------------------------ setupVitest
\* path.join(projectRoot, 'vitest.config.ts')
ConfigPath(root) == Append(root, <<"vitest", "config", "ts">>)

\* path.join(projectRoot, 'src', 'setupTests.ts')
SetupPath(root) == root \o << <<"src">>, <<"setupTests", "ts">> >>

YarnLock(root) == Append(root, <<"yarn", "lock">>)

PackageLock(root) == Append(root, <<"package-lock", "json">>)

\* the file contents the tool writes
DefaultConfig == [kind |-> "defaultConfig"]

DefaultSetupFile == [kind |-> "jestDomImport"]

WriteFile(p, content) ==
    fs' = [q \in DOMAIN fs \cup {p} |-> IF q = p THEN content ELSE fs[q]]

\* setupVitest(projectRoot) is called
CallSetupVitest ==
    /\ setupPc = "idle"
    /\ setupPc' = "checkConfig"
    /\ fs0' = fs
    /\ UNCHANGED <<fs, dirs, setupResult, installCmd, notSetup>>

\* if (!(await fs.pathExists(vitestConfigPath)))
SetupCheckConfig ==
    /\ setupPc = "checkConfig"
    /\ setupPc' = IF PathExists(ConfigPath(projectRoot)) THEN "checkSetup" ELSE "writeConfig"
    /\ UNCHANGED <<fsVars, setupResult, installCmd, notSetup>>

\* await fs.writeFile(vitestConfigPath, defaultConfig)
SetupWriteConfig ==
    /\ setupPc = "writeConfig"
    /\ WriteFile(ConfigPath(projectRoot), DefaultConfig)
    /\ setupPc' = "checkSetup"
    /\ UNCHANGED <<dirs, fs0, setupResult, installCmd, notSetup>>

\* a check of the wrong path: the config file instead of the setup file
SetupFileExistsByConfig == PathExists(ConfigPath(projectRoot))

\* await fs.pathExists(setupPath)
SetupFileExists == PathExists(SetupPath(projectRoot))

\* if (!(await fs.pathExists(setupPath)))
SetupCheckSetupFile ==
    /\ setupPc = "checkSetup"
    /\ setupPc' = IF SetupFileExists THEN "checkYarn" ELSE "ensureDir"
    /\ UNCHANGED <<fsVars, setupResult, installCmd, notSetup>>

\* await fs.ensureDir(path.dirname(setupPath))
SetupEnsureDir ==
    /\ setupPc = "ensureDir"
    /\ dirs' = dirs \cup Ancestors(Front(SetupPath(projectRoot)))
    /\ setupPc' = "writeSetup"
    /\ UNCHANGED <<fs, fs0, setupResult, installCmd, notSetup>>

\* await fs.writeFile(setupPath, "import '@testing-library/jest-dom';\n")
SetupWriteSetupFile ==
    /\ setupPc = "writeSetup"
    /\ WriteFile(SetupPath(projectRoot), DefaultSetupFile)
    /\ setupPc' = "checkYarn"
    /\ UNCHANGED <<dirs, fs0, setupResult, installCmd, notSetup>>

\* const useYarn = await fs.pathExists(path.join(projectRoot, 'yarn.lock'))
SetupChooseInstaller ==
    /\ setupPc = "checkYarn"
    /\ installCmd' = IF PathExists(YarnLock(projectRoot)) THEN "yarn add -D" ELSE "npm install --save-dev"
    /\ setupPc' = "install"
    /\ UNCHANGED <<fsVars, setupResult, notSetup>>

\* an install that undoes the writes of the call when the command fails
SetupInstallRollback ==
    /\ setupPc = "install"
    /\ \E err \in BOOLEAN :
          IF err
          THEN setupPc' = "rejected" /\ setupResult' = [error |-> "install failed"]
               /\ fs' = fs0 /\ UNCHANGED <<dirs, fs0>>
          ELSE setupPc' = "resolved" /\ setupResult' = [message |-> "Vitest setup complete"]
               /\ UNCHANGED fsVars
    /\ UNCHANGED <<installCmd, notSetup>>

\* exec(installCmd, ...): the promise resolves, or rejects when the command fails
SetupInstall ==
    /\ setupPc = "install"
    /\ \E err \in BOOLEAN :
          IF err
          THEN setupPc' = "rejected" /\ setupResult' = [error |-> "install failed"]
          ELSE setupPc' = "resolved" /\ setupResult' = [message |-> "Vitest setup complete"]
    /\ UNCHANGED <<fsVars, installCmd, notSetup>>

SetupNext ==
    \/ CallSetupVitest
    \/ SetupCheckConfig
    \/ SetupWriteConfig
    \/ SetupCheckSetupFile
    \/ SetupEnsureDir
    \/ SetupWriteSetupFile
    \/ SetupChooseInstaller
    \/ SetupInstall

\* a project directory: each of the four files may be there, the two the tool
\* writes with the user's content or with the content of an earlier setup
SetupInit ==
    /\ projectRoot = Root
    /\ \E c \in {NULL, "user", "default"}, t \in {NULL, "user", "default"},
          L \in SUBSET {YarnLock(Root), PackageLock(Root)}, src \in BOOLEAN :
          /\ fs = [p \in L \cup (IF c = NULL THEN {} ELSE {ConfigPath(Root)})
                           \cup (IF t = NULL THEN {} ELSE {SetupPath(Root)}) |->
                      IF p = ConfigPath(Root)
                      THEN (IF c = "user" THEN UserContent ELSE DefaultConfig)
                      ELSE IF p = SetupPath(Root)
                           THEN (IF t = "user" THEN UserContent ELSE DefaultSetupFile)
                           ELSE UserContent]
          /\ dirs = Ancestors(Root)
                    \cup (IF src \/ t # NULL THEN {Front(SetupPath(Root))} ELSE {})
    /\ fs0 = fs
    /\ setupPc = "idle"
    /\ setupResult = NULL
    /\ installCmd = NULL
    /\ uncoveredFiles = <<>> /\ tasks = <<>> /\ phase = "off" /\ returned = <<>>
    /\ CovIdle /\ DiffIdle /\ PlugIdle /\ HttpIdle
    /\ LaterIdle

SpecSetup == SetupInit /\ [][SetupNext]_vars

\* what setupVitest leaves at a path: what was there, else the default
SetupLeaves(p, default) ==
    /\ p \in DOMAIN fs
    /\ fs[p] = IF p \in DOMAIN fs0 THEN fs0[p] ELSE default

\* C6: after setupVitest, vitest.config.ts and src/setupTests.ts each hold what
\* they held before the call when they existed, and the default content when
\* they did not, whatever the state of the other file.
C6_WritesOnlyWhenAbsent ==
    setupPc \in {"resolved", "rejected"} =>
        /\ SetupLeaves(ConfigPath(projectRoot), DefaultConfig)
        /\ SetupLeaves(SetupPath(projectRoot), DefaultSetupFile)

\* a call that found the user's config file, and no setup file, has returned
C6_Witness ==
    /\ setupPc = "resolved"
    /\ ConfigPath(projectRoot) \in DOMAIN fs0
    /\ fs0[ConfigPath(projectRoot)] = UserContent
    /\ SetupPath(projectRoot) \notin DOMAIN fs0
    /\ fs[SetupPath(projectRoot)] = DefaultSetupFile

\* ------------------------------------------------------------ loadPlugins
\* What importing a file of the tools directory gives: a default export with a
\* router function, one whose router throws when called, a module without a
\* valid default export, or an import that throws.
ModuleKinds == {"router", "routerThrows", "noRouter", "importThrows"}

ModuleNames ==
    { <<"coverageDiff", "ts">>, <<"ciGenerator", "ts">>, <<"coverageDiff", "js">>,
      <<"index", "ts">>, <<"", "draft", "ts">> }

PluginEntries ==
    [name : ModuleNames, kind : ModuleKinds]
    \cup {[name |-> <<"README", "md">>, kind |-> "importThrows"]}

\* file.endsWith('.ts')
EndsWithTs(name) == Len(name) >= 2 /\ Last(name) = "ts"

\* if (!file.endsWith('.ts') || file === 'index.ts' || file.startsWith('.')) continue
Skipped(name) ==
    \/ ~EndsWithTs(name)
    \/ name = <<"index", "ts">>
    \/ name[1] = ""

\* loadPlugins(app) is called: a missing directory ends it, else the directory
\* is read
CallLoadPlugins ==
    /\ loaderPc = "idle"
    /\ IF ~dirExists
       THEN loaderPc' = "returned" /\ UNCHANGED pluginIdx
       ELSE loaderPc' = "loop" /\ pluginIdx' = 1
    /\ UNCHANGED <<dirExists, pluginFiles, routerCalls, notPlug>>

\* a loop without the try block: a throwing import or router ends loadPlugins
LoadOnePluginUncaught ==
    /\ loaderPc = "loop"
    /\ pluginIdx <= Len(pluginFiles)
    /\ LET file == pluginFiles[pluginIdx]
       IN /\ routerCalls' =
               IF ~Skipped(file.name) /\ file.kind \in {"router", "routerThrows"}
               THEN Append(routerCalls, file.name)
               ELSE routerCalls
          /\ loaderPc' =
               IF ~Skipped(file.name) /\ file.kind \in {"importThrows", "routerThrows"}
               THEN "threw" ELSE loaderPc
    /\ pluginIdx' = pluginIdx + 1
    /\ UNCHANGED <<dirExists, pluginFiles, notPlug>>

\* one turn of the loop over the files; a throwing import or router is caught
LoadOnePlugin ==
    /\ loaderPc = "loop"
    /\ pluginIdx <= Len(pluginFiles)
    /\ LET file == pluginFiles[pluginIdx]
       IN routerCalls' =
            IF ~Skipped(file.name) /\ file.kind \in {"router", "routerThrows"}
            THEN Append(routerCalls, file.name)
            ELSE routerCalls
    /\ pluginIdx' = pluginIdx + 1
    /\ UNCHANGED <<dirExists, pluginFiles, loaderPc, notPlug>>

\* the loop has run out of files
ReturnLoadPlugins ==
    /\ loaderPc = "loop"
    /\ pluginIdx > Len(pluginFiles)
    /\ loaderPc' = "returned"
    /\ UNCHANGED <<dirExists, pluginFiles, pluginIdx, routerCalls, notPlug>>

\* app.listen(PORT, ...) after await loadPlugins(app)
Listen ==
    /\ loaderPc = "returned"
    /\ loaderPc' = "listening"
    /\ UNCHANGED <<dirExists, pluginFiles, pluginIdx, routerCalls, notPlug>>

PlugNext ==
    \/ CallLoadPlugins
    \/ LoadOnePlugin
    \/ ReturnLoadPlugins
    \/ Listen

\* the tools directory when the server starts: missing, or some files with
\* distinct names
PlugInit ==
    /\ dirExists \in BOOLEAN
    /\ pluginFiles \in
          { fs_ \in SeqsUpTo(PluginEntries, MaxPluginFiles) :
              /\ \A i, j \in 1..Len(fs_) : i # j => fs_[i].name # fs_[j].name
              /\ (~dirExists => fs_ = <<>>) }
    /\ pluginIdx = 0
    /\ routerCalls = <<>>
    /\ loaderPc = "idle"
    /\ FsIdle /\ GenIdle /\ SetupIdle /\ CovIdle /\ DiffIdle /\ HttpIdle
    /\ LaterIdle

SpecPlug == PlugInit /\ [][PlugNext]_vars

\* how often the router of a file was invoked
RouterCallsOf(name) == Cardinality({i \in 1..Len(routerCalls) : routerCalls[i] = name})

\* a plugin module as the README describes it: a source or compiled file of the
\* tools directory, other than an index file or a hidden file
PluginModule(name) ==
    /\ Last(name) \in {"ts", "js"}
    /\ name[1] \notin {"", "index"}

\* C9: once loadPlugins has returned, the router of every plugin module of the
\* directory that exports one was invoked exactly once, whatever the file's
\* extension, and no router was invoked for a file that exports none.
C9_EveryRouterRegistered ==
    loaderPc \in {"returned", "listening"} =>
        \A i \in 1..Len(pluginFiles) :
            LET file == pluginFiles[i]
            IN /\ (PluginModule(file.name) /\ file.kind \in {"router", "routerThrows"})
                     => RouterCallsOf(file.name) = 1
               /\ file.kind \notin {"router", "routerThrows"}
                     => RouterCallsOf(file.name) = 0

\* --------------------------------------------------------- the HTTP layer
\* A response: the status, the kind of body, the body's success field
\* ("absent" when it has none), its error or status text, and the provider
\* name it reports.
Json(status, success, text) ==
    [status |-> status, kind |-> "json", success |-> success, text |-> text,
     providerName |-> ""]

Raw(status, kind, text) ==
    [status |-> status, kind |-> kind, success |-> "absent", text |-> text,
     providerName |-> ""]

\* return res.status(400).json({ error: 'Missing projectPath' })
MissingProjectPath == Json(400, "absent", "Missing projectPath")

\* the answer to a caught exception with another status
CaughtAsOk(text) == Json(200, "false", text)

\* res.status(500).json({ success: false, error: (e as any).error || e })
Caught(text) == Json(500, "false", text)

\* a tool function or an external operation a handler has invoked
Eff(op) == [op |-> op, files |-> <<>>]

EffFiles(op, files) == [op |-> op, files |-> files]

\* What handling a request comes to: the response, the operations invoked,
\* the provider the LLM service is left with, whether an exception reached the
\* handler's catch block, and the operation that failed ("none" when none did).
Handled(r, eff, prov, threw, failure) ==
    [resp |-> r, effects |-> eff, provider |-> prov, threw |-> threw,
     failure |-> failure]

\* Array.from(new Set(files)): the first occurrences, in order
RECURSIVE Dedup(_)
Dedup(xs) ==
    IF xs = <<>> THEN <<>>
    ELSE LET d == Dedup(Front(xs))
         IN IF Last(xs) \in Range(d) THEN d ELSE Append(d, Last(xs))

\* analysis.uncovered.map((u: any) => u.file)
FilesOf(items) == [i \in 1..Len(items) |-> items[i].file]

\* what src/tools/analyzeCoverage.ts exports
AnalyzeCoverageExports == {"analyzeCoverage"}

\* await analyzeCoverage(projectPath) inside a handler: the runner fails, the
\* artifact cannot be read, or the uncovered items come back
Analysis(env) ==
    IF env.execFails
    THEN [ok |-> FALSE, effects |-> <<Eff("exec vitest")>>, failure |-> "subprocess",
          uncovered |-> <<>>]
    ELSE IF env.readFails
         THEN [ok |-> FALSE, effects |-> <<Eff("exec vitest"), Eff("readFile coverage")>>,
               failure |-> "readFile", uncovered |-> <<>>]
         ELSE [ok |-> TRUE, effects |-> <<Eff("exec vitest"), Eff("readFile coverage")>>,
               failure |-> "none", uncovered |-> Uncovered(env.cov)]

\* POST /setup-vitest (index.ts, and the vitest-setup plugin, which is the same)
SetupVitestHandler(env) ==
    IF ~env.hasPath
    THEN Handled(MissingProjectPath, <<>>, provider, FALSE, "missingInput")
    ELSE IF env.installFails
         THEN Handled(Caught("install failed"), <<Eff("setupVitest")>>, provider,
                      TRUE, "subprocess")
         ELSE Handled(Json(200, "true", ""), <<Eff("setupVitest")>>, provider,
                      FALSE, "none")

\* POST /analyze-coverage (index.ts)
AnalyzeCoverageHandler(env) ==
    IF ~env.hasPath
    THEN Handled(MissingProjectPath, <<>>, provider, FALSE, "missingInput")
    ELSE LET a == Analysis(env)
         IN IF a.ok
            THEN Handled(Json(200, "true", ""), a.effects, provider, FALSE, "none")
            ELSE Handled(Caught(a.failure), a.effects, provider, TRUE, a.failure)

\* the body of both /generate-tests handlers; analyzeFn is the name under which
\* the handler imports the analysis
GenerateTestsWith(env, analyzeFn) ==
    IF ~env.hasPath
    THEN Handled(MissingProjectPath, <<>>, provider, FALSE, "missingInput")
    ELSE IF ~env.filesGiven /\ analyzeFn \notin AnalyzeCoverageExports
         THEN \* the imported name is undefined: calling it throws a TypeError
              Handled(Caught("TypeError"), <<>>, provider, TRUE, "notAFunction")
         ELSE LET a == IF env.filesGiven
                       THEN [ok |-> TRUE, effects |-> <<>>, failure |-> "none",
                             uncovered |-> <<>>]
                       ELSE Analysis(env)
                  files == IF env.filesGiven THEN env.files ELSE FilesOf(a.uncovered)
                  gen == EffFiles("generateTests", Dedup(files))
              IN IF ~a.ok
                 THEN Handled(Caught(a.failure), a.effects, provider, TRUE, a.failure)
                 ELSE IF env.genThrows
                      THEN Handled(Caught("generateTests failed"),
                                   Append(a.effects, gen), provider, TRUE, "writeFile")
                      ELSE Handled(Json(200, "true", ""), Append(a.effects, gen),
                                   provider, FALSE, "none")

\* POST /generate-tests (index.ts): import { analyzeCoverage }
IndexGenerateTestsHandler(env) == GenerateTestsWith(env, "analyzeCoverage")

\* POST /generate-tests (test-generator plugin):
\* const { analyzeCoverageImpl } = await import('./analyzeCoverage.js')
PluginGenerateTestsHandler(env) == GenerateTestsWith(env, "analyzeCoverageImpl")

\* the name of the provider createProvider builds for a configuration type
ProviderName(type) ==
    CASE type = "lmstudio" -> "LM Studio"
      [] type = "ollama" -> "Ollama"
      [] type = "llamacpp" -> "llama.cpp"
      [] type = "mlx" -> "MLX"
      [] OTHER -> "OpenAI"

\* an initialize that answers from the provider of an earlier call when no
\* configuration is loaded
InitializeKeepStale(prov, loaded, healthy) ==
    IF loaded = "fail"
    THEN [ok |-> prov # NULL, provider |-> prov]
    ELSE [ok |-> healthy, provider |-> ProviderName(loaded)]

\* LocalLLMService.initialize(): loaded is the type of the configuration
\* loadConfig returns, "fail" when it returns null; healthy is isHealthy()
Initialize(prov, loaded, healthy) ==
    IF loaded = "fail"
    THEN [ok |-> FALSE, provider |-> prov]
    ELSE [ok |-> healthy, provider |-> ProviderName(loaded)]

\* getProviderName(): this.provider?.name || 'Unknown'
GetProviderName(prov) == IF prov = NULL THEN "Unknown" ELSE prov

\* a handler that initialises the service before it looks at the body
AiGenerateTestsInitFirst(prov, env) ==
    LET init == Initialize(prov, env.loaded, env.healthy)
    IN IF ~env.hasPath
       THEN Handled(MissingProjectPath, <<Eff("llm.initialize")>>, init.provider,
                    FALSE, "missingInput")
       ELSE Handled(Json(200, "true", ""), <<Eff("llm.initialize")>>, init.provider,
                    FALSE, "none")

\* POST /ai-generate-tests (ai-test-writer plugin on the LLM service)
AiGenerateTestsHandler(prov, env) ==
    IF ~env.hasPath
    THEN Handled(MissingProjectPath, <<>>, prov, FALSE, "missingInput")
    ELSE LET init == Initialize(prov, env.loaded, env.healthy)
         IN IF ~init.ok
            THEN Handled(Caught("LLM service could not be initialized"),
                         <<Eff("llm.initialize")>>, init.provider, TRUE,
                         "llmUnavailable")
            ELSE \* a completion that fails is caught inside the loop over the
                 \* files and logged: the file is skipped
                 Handled([Json(200, "true", "") EXCEPT
                             !.providerName = GetProviderName(init.provider)],
                         <<Eff("llm.initialize"), Eff("generateAITests")>>,
                         init.provider, FALSE,
                         IF env.completionFails THEN "llmCompletion" ELSE "none")

\* POST /ai-generate-tests (ai-test-writer plugin on the OpenAI client)
OpenAIGenerateTestsHandler(env) ==
    IF ~env.hasPath
    THEN Handled(MissingProjectPath, <<>>, provider, FALSE, "missingInput")
    ELSE IF ~env.hasKey
         THEN Handled(Json(400, "absent", "OpenAI API key not configured"), <<>>,
                      provider, FALSE, "missingConfiguration")
         ELSE Handled(Json(200, "true", ""), <<Eff("generateAITests")>>, provider,
                      FALSE, "none")

\* GET /ai-health
AiHealthHandler(prov, env) ==
    LET init == Initialize(prov, env.loaded, env.healthy)
    IN IF ~init.ok
       THEN Handled(Json(200, "absent", "not_configured"), <<Eff("llm.initialize")>>,
                    init.provider, FALSE, "llmUnavailable")
       ELSE Handled([Json(200, "absent", "healthy") EXCEPT
                        !.providerName = GetProviderName(init.provider)],
                    <<Eff("llm.initialize")>>, init.provider, FALSE, "none")

\* GET /llm-config
LlmConfigHandler(prov, env) ==
    LET init == Initialize(prov, env.loaded, env.healthy)
    IN IF ~init.ok
       THEN Handled(Json(200, "absent", "not_configured"), <<Eff("llm.initialize")>>,
                    init.provider, FALSE, "llmUnavailable")
       ELSE Handled([Json(200, "absent", "configured") EXCEPT
                        !.providerName = GetProviderName(init.provider)],
                    <<Eff("llm.initialize")>>, init.provider, FALSE, "none")

\* generateCoverageDiff(baseBranch): fail names the step that fails, backFails
\* says whether `git checkout -` fails. A failure of the first run or of reading
\* its artifact is thrown; one inside the try block is caught and reported as
\* success:false, after a `git checkout -` that may itself throw.
GenerateCoverageDiff(fail, backFails) ==
    IF fail \in {"firstRun", "firstRead"}
    THEN [threw |-> TRUE, success |-> FALSE]
    ELSE IF backFails
         THEN [threw |-> TRUE, success |-> FALSE]
         ELSE [threw |-> FALSE, success |-> fail = "none"]

DiffFailure(env) ==
    IF env.fail \in {"firstRun", "baseRun"} THEN "subprocess"
    ELSE IF env.fail \in {"firstRead", "baseRead"} THEN "readFile"
         ELSE IF env.fail = "checkout" \/ env.backFails THEN "checkout" ELSE "none"

\* POST /coverage-diff
CoverageDiffHandler(env) ==
    LET d == GenerateCoverageDiff(env.fail, env.backFails)
        eff == <<Eff("generateCoverageDiff")>>
    IN IF d.threw
       THEN Handled(Caught("Failed to generate coverage diff"), eff, provider, TRUE,
                    DiffFailure(env))
       ELSE IF d.success
            THEN Handled(Json(200, "true", ""), eff, provider, FALSE, "none")
            ELSE Handled(Json(400, "false", "Failed to compare with base branch"),
                         eff, provider, FALSE, DiffFailure(env))

\* GET /coverage-badge.svg
CoverageBadgeHandler(env) ==
    LET d == GenerateCoverageDiff(env.fail, env.backFails)
        eff == <<Eff("generateCoverageDiff")>>
    IN IF d.threw
       THEN Handled(Raw(500, "text", "Error generating badge"), eff, provider, TRUE,
                    DiffFailure(env))
       ELSE IF d.success
            THEN Handled(Raw(200, "svg", "coverage change"), eff, provider, FALSE, "none")
            ELSE Handled(Raw(200, "svg", "N/A"), eff, provider, FALSE, DiffFailure(env))

\* a generateCIConfig that takes every platform it does not know for gitlab
GenerateCIConfigLenient(platform, writeFails) ==
    IF writeFails THEN [success |-> FALSE, failure |-> "writeFile"]
    ELSE [success |-> TRUE, failure |-> "none"]

\* generateCIConfig(platform, projectName): every failure is caught and
\* returned as success:false
GenerateCIConfig(platform, writeFails) ==
    IF platform \notin {"github", "gitlab"} THEN [success |-> FALSE, failure |-> "unsupported"]
    ELSE IF writeFails THEN [success |-> FALSE, failure |-> "writeFile"]
         ELSE [success |-> TRUE, failure |-> "none"]

\* POST /generate-workflow; an omitted platform is 'github'
GenerateWorkflowHandler(env) ==
    LET platform == IF env.platform = "omitted" THEN "github" ELSE env.platform
        c == GenerateCIConfig(platform, env.writeFails)
        eff == <<Eff("generateCIConfig")>>
    IN IF c.success
       THEN Handled(Json(200, "true", ""), eff, provider, FALSE, "none")
       ELSE Handled(Json(400, "false", c.failure), eff, provider, FALSE, c.failure)

\* POST /generate-all-workflows
GenerateAllWorkflowsHandler(env) ==
    LET gh == GenerateCIConfig("github", env.githubFails)
        gl == GenerateCIConfig("gitlab", env.gitlabFails)
    IN Handled(Json(200, "true", ""),
               <<Eff("generateCIConfig"), Eff("generateCIConfig")>>, provider, FALSE,
               IF ~gh.success THEN gh.failure ELSE gl.failure)

\* GET /profile-tests, GET /test-analysis and GET /generate-heatmap: the tool
\* function runs the test runner or reads the artifact, and may throw
ToolGetHandler(env) ==
    IF env.fail = "none"
    THEN Handled(Json(200, "true", ""), <<Eff(env.tool)>>, provider, FALSE, "none")
    ELSE Handled(Caught(env.fail), <<Eff(env.tool)>>, provider, TRUE, env.fail)

\* GET /coverage-heatmap.html
HeatmapPageHandler(env) ==
    IF env.exists
    THEN Handled(Raw(200, "file", "heatmap.html"), <<>>, provider, FALSE, "none")
    ELSE IF env.fail = "none"
         THEN Handled(Raw(200, "file", "heatmap.html"),
                      <<Eff("generateCoverageHeatmap")>>, provider, FALSE, "none")
         ELSE Handled(Raw(500, "text", "Error generating heatmap"),
                      <<Eff("generateCoverageHeatmap")>>, provider, TRUE, env.fail)

\* GET /health, GET /api, GET /ci-health
InfoHandler(env) == Handled(Json(200, "absent", "ok"), <<>>, provider, FALSE, "none")

\* the files a request may name, and what a test run may report
RequestFiles == {"a.ts", "b.ts"}

CovSamples ==
    { [file \in {} |-> <<>>],
      [file \in {"a.ts"} |-> [s |-> [i \in {"0", "1"} |-> 1]]],
      [file \in {"a.ts", "b.ts"} |->
          IF file = "a.ts"
          THEN [s |-> [i \in {"0", "1"} |-> 0], b |-> [i \in {"0"} |-> <<0, 1>>]]
          ELSE [f |-> [i \in {"0"} |-> 0]]] }

SetupEnvs == [hasPath : BOOLEAN, installFails : BOOLEAN]

AnalyzeEnvs ==
    [hasPath : BOOLEAN, execFails : BOOLEAN, readFails : BOOLEAN, cov : CovSamples]

GenEnvs ==
    { e \in [hasPath : BOOLEAN, filesGiven : BOOLEAN,
             files : SeqsUpTo(RequestFiles, MaxFiles), execFails : BOOLEAN,
             readFails : BOOLEAN, cov : CovSamples, genThrows : BOOLEAN] :
        /\ (~e.filesGiven => e.files = <<>>)
        /\ (e.filesGiven => ~e.execFails /\ ~e.readFails /\ e.cov = [file \in {} |-> <<>>]) }

LlmEnvs ==
    [hasPath : BOOLEAN, loaded : {"fail", "openai", "ollama", "mlx"}, healthy : BOOLEAN]

AiGenEnvs ==
    [hasPath : BOOLEAN, loaded : {"fail", "openai", "ollama", "mlx"},
     healthy : BOOLEAN, completionFails : BOOLEAN]

OpenAIEnvs == [hasPath : BOOLEAN, hasKey : BOOLEAN]

DiffEnvs ==
    [fail : {"none", "firstRun", "firstRead", "checkout", "baseRun", "baseRead"},
     backFails : BOOLEAN]

WorkflowEnvs ==
    [platform : {"omitted", "github", "gitlab", "bitbucket"}, writeFails : BOOLEAN]

AllWorkflowsEnvs == [githubFails : BOOLEAN, gitlabFails : BOOLEAN]

ToolGetEnvs ==
    [tool : {"profileTests"}, fail : {"none", "subprocess", "readFile"}]
    \cup [tool : {"generateCoverageHeatmap"}, fail : {"none", "readFile", "writeFile"}]

HeatmapEnvs == [exists : BOOLEAN, fail : {"none", "readFile"}]

\* one request is handled from its arrival to its response
Serve(endpoint, handler, env, h) ==
    /\ nreq < MaxRequests
    /\ nreq' = nreq + 1
    /\ req' = [endpoint |-> endpoint, handler |-> handler, env |-> env,
               threw |-> h.threw, failure |-> h.failure]
    /\ resp' = h.resp
    /\ effects' = h.effects
    /\ provider' = h.provider
    /\ UNCHANGED <<config, notHttp>>

PostSetupVitest ==
    \E env \in SetupEnvs, handler \in {"index", "plugin"} :
        Serve("/setup-vitest", handler, env, SetupVitestHandler(env))

PostAnalyzeCoverage ==
    \E env \in AnalyzeEnvs :
        Serve("/analyze-coverage", "index", env, AnalyzeCoverageHandler(env))

PostGenerateTestsIndex ==
    \E env \in GenEnvs :
        Serve("/generate-tests", "index", env, IndexGenerateTestsHandler(env))

PostGenerateTestsPlugin ==
    \E env \in GenEnvs :
        Serve("/generate-tests", "plugin", env, PluginGenerateTestsHandler(env))

PostAiGenerateTests ==
    \E env \in AiGenEnvs :
        Serve("/ai-generate-tests", "llm service", env,
              AiGenerateTestsHandler(provider, env))

PostAiGenerateTestsOpenAI ==
    \E env \in OpenAIEnvs :
        Serve("/ai-generate-tests", "openai client", env, OpenAIGenerateTestsHandler(env))

GetAiHealth ==
    \E env \in LlmEnvs :
        Serve("/ai-health", "llm service", env, AiHealthHandler(provider, env))

GetLlmConfig ==
    \E env \in LlmEnvs :
        Serve("/llm-config", "llm service", env, LlmConfigHandler(provider, env))

PostCoverageDiff ==
    \E env \in DiffEnvs :
        Serve("/coverage-diff", "plugin", env, CoverageDiffHandler(env))

GetCoverageBadge ==
    \E env \in DiffEnvs :
        Serve("/coverage-badge.svg", "plugin", env, CoverageBadgeHandler(env))

PostGenerateWorkflow ==
    \E env \in WorkflowEnvs :
        Serve("/generate-workflow", "plugin", env, GenerateWorkflowHandler(env))

PostGenerateAllWorkflows ==
    \E env \in AllWorkflowsEnvs :
        Serve("/generate-all-workflows", "plugin", env, GenerateAllWorkflowsHandler(env))

GetToolResult ==
    \E env \in ToolGetEnvs :
        \E endpoint \in IF env.tool = "profileTests"
                        THEN {"/profile-tests", "/test-analysis"}
                        ELSE {"/generate-heatmap"} :
            Serve(endpoint, "plugin", env, ToolGetHandler(env))

GetHeatmapPage ==
    \E env \in HeatmapEnvs :
        Serve("/coverage-heatmap.html", "plugin", env, HeatmapPageHandler(env))

GetInfo ==
    \E endpoint \in {"/health", "/api", "/ci-health"} :
        Serve(endpoint, "index", [hasPath |-> FALSE], InfoHandler([hasPath |-> FALSE]))

HttpNext ==
    \/ PostSetupVitest
    \/ PostAnalyzeCoverage
    \/ PostGenerateTestsIndex
    \/ PostGenerateTestsPlugin
    \/ PostAiGenerateTests
    \/ PostAiGenerateTestsOpenAI
    \/ GetAiHealth
    \/ GetLlmConfig
    \/ PostCoverageDiff
    \/ GetCoverageBadge
    \/ PostGenerateWorkflow
    \/ PostGenerateAllWorkflows
    \/ GetToolResult
    \/ GetHeatmapPage
    \/ GetInfo

DefaultPort == 3000

\* the configuration the server holds once it has started
StartupConfigs ==
    { [port |-> DefaultPort, logLevel |-> "info"],
      [port |-> DefaultPort, logLevel |-> "debug"] }

\* the server has started: no request has been handled, the LLM service has
\* no provider
HttpInit ==
    /\ config \in StartupConfigs
    /\ provider = NULL
    /\ req = [endpoint |-> "none", handler |-> "none", env |-> [hasPath |-> FALSE],
              threw |-> FALSE, failure |-> "none"]
    /\ resp = Json(0, "absent", "")
    /\ effects = <<>>
    /\ nreq = 0
    /\ FsIdle /\ GenIdle /\ SetupIdle /\ CovIdle /\ DiffIdle /\ PlugIdle
    /\ LaterIdle

SpecHttp == HttpInit /\ [][HttpNext]_vars

\* the endpoints whose body must carry projectPath
PathEndpoints ==
    {"/setup-vitest", "/analyze-coverage", "/generate-tests", "/ai-generate-tests"}

\* C3: a request to one of the four endpoints without projectPath is answered
\* 400 'Missing projectPath' before any tool function runs: nothing is invoked
\* and the LLM service keeps its provider.
C3_MissingProjectPath ==
    [][(nreq' = nreq + 1 /\ req'.endpoint \in PathEndpoints /\ ~req'.env.hasPath)
          => /\ resp' = MissingProjectPath
             /\ effects' = <<>>
             /\ provider' = provider]_vars

\* /ai-generate-tests was answered 400 in a server whose LLM service an earlier
\* request had initialised
C3_Witness ==
    /\ nreq = 2
    /\ req.endpoint = "/ai-generate-tests"
    /\ req.handler = "llm service"
    /\ ~req.env.hasPath
    /\ resp.status = 400
    /\ provider # NULL

\* the endpoints of the plugin that works on the LLM service
LlmEndpoints == {"/ai-generate-tests", "/ai-health", "/llm-config"}

\* the failures that are a missing input of the request
MissingInputs == {"missingInput"}

Answers400 ==
    \/ req.endpoint \in PathEndpoints /\ req.failure = "missingInput"
    \/ req.handler = "openai client" /\ req.failure = "missingConfiguration"
    \/ /\ req.endpoint = "/coverage-diff"
       /\ req.failure \in {"subprocess", "readFile", "checkout"}
       /\ ~req.threw
    \/ req.endpoint = "/generate-workflow" /\ req.failure \in {"unsupported", "writeFile"}

LlmResponse(q, prov) ==
    CASE q.endpoint = "/ai-generate-tests" -> AiGenerateTestsHandler(prov, q.env).resp
      [] q.endpoint = "/ai-health" -> AiHealthHandler(prov, q.env).resp
      [] OTHER -> LlmConfigHandler(prov, q.env).resp

Distinct(xs) == Cardinality(Range(xs)) = Len(xs)

\* C10: POST /generate-tests with projectPath. With uncoveredFiles omitted the
\* analysis runs first and the generator is handed the distinct files of the
\* uncovered items, and the answer is success:true when nothing fails; with
\* uncoveredFiles supplied the test runner is not invoked and the generator is
\* handed the distinct supplied paths. For the handler of index.ts and for the
\* handler of the test-generator plugin.
C10_GenerateTestsFlow ==
    (nreq > 0 /\ req.endpoint = "/generate-tests" /\ req.env.hasPath) =>
        IF req.env.filesGiven
        THEN /\ Len(effects) = 1
             /\ effects[1].op = "generateTests"
             /\ Distinct(effects[1].files)
             /\ Range(effects[1].files) = Range(req.env.files)
        ELSE (~req.env.execFails /\ ~req.env.readFails) =>
                 /\ Len(effects) = 3
                 /\ effects[1].op = "exec vitest"
                 /\ effects[2].op = "readFile coverage"
                 /\ effects[3].op = "generateTests"
                 /\ Distinct(effects[3].files)
                 /\ Range(effects[3].files) = {z.file : z \in ZeroItems(req.env.cov)}
                 /\ (~req.env.genThrows => resp.status = 200 /\ resp.success = "true")

\* the same for the handler of index.ts alone
C10_IndexHandlerFlow ==
    req.handler = "index" => C10_GenerateTestsFlow

\* ------------------------------------------------- startup configuration
DefaultThreshold == 100

ThresholdNames == {"statements", "branches", "functions", "lines"}

\* parseInt of a string: the value of its leading digits
RECURSIVE LeadingDigits(_)
LeadingDigits(cs) ==
    IF cs = <<>> \/ Head(cs) \notin Range(DigitChars) THEN <<>>
    ELSE <<Head(cs)>> \o LeadingDigits(Tail(cs))

ParseInt(cs) == DecimalValue(LeadingDigits(cs))

\* process.env: the variables that are set
Environments ==
    { [name \in names |->
          IF name = "PORT" THEN <<"8", "0", "8", "0">> ELSE <<"d", "e", "b", "u", "g">>] :
        names \in SUBSET {"PORT", "LOG_LEVEL"} }

EnvOr(e, name, default) == IF name \in DOMAIN e THEN e[name] ELSE default

\* let config = { port: parseInt(process.env.PORT || '3000'), ... }
DefaultsOf(e) ==
    [port |-> ParseInt(EnvOr(e, "PORT", Digits(DefaultPort))),
     logLevel |-> EnvOr(e, "LOG_LEVEL", <<"i", "n", "f", "o">>),
     coverageThresholds |-> [t \in ThresholdNames |-> DefaultThreshold]]

\* the objects mcp.config.json may hold: any of the fields, and any of the
\* entries of coverageThresholds
FileThresholds == UNION { [names -> {80}] : names \in SUBSET ThresholdNames }

FileConfigs ==
    { [k \in names |->
          CASE k = "port" -> 4000
            [] k = "logLevel" -> <<"w", "a", "r", "n">>
            [] OTHER -> thresholds] :
        names \in SUBSET {"port", "logLevel", "coverageThresholds"},
        thresholds \in FileThresholds }

\* mcp.config.json: absent, not readable as JSON, or an object
ConfigFiles ==
    {[state |-> "absent", json |-> <<>>], [state |-> "unreadable", json |-> <<>>]}
    \cup [state : {"object"}, json : FileConfigs]

\* { ...config, ...fileConfig }
Spread(defaults, file) ==
    [k \in DOMAIN defaults \cup DOMAIN file |->
        IF k \in DOMAIN file THEN file[k] ELSE defaults[k]]

\* the try block that loads mcp.config.json; a failure is logged and the
\* defaults stay
LoadConfigFile ==
    /\ startPc = "defaults"
    /\ startPc' = "loaded"
    /\ config' = IF configFile.state = "object"
                 THEN Spread(config, configFile.json)
                 ELSE config
    /\ UNCHANGED <<environment, configFile, provider, req, resp, effects, nreq, notCfg>>

CfgNext == LoadConfigFile

CfgInit ==
    /\ environment \in Environments
    /\ configFile \in ConfigFiles
    /\ startPc = "defaults"
    /\ config = DefaultsOf(environment)
    /\ provider = NULL /\ req = NULL /\ resp = NULL /\ effects = <<>> /\ nreq = -1
    /\ FsIdle /\ GenIdle /\ SetupIdle /\ CovIdle /\ DiffIdle /\ PlugIdle
    /\ LaterIdleBut("cfg")

SpecCfg == CfgInit /\ [][CfgNext]_vars

\* C11: once startup has loaded the configuration, every field the file gives
\* has the file's value and every field it does not give, top-level or an entry
\* of coverageThresholds, has its default; with the file absent or unreadable
\* the configuration is the defaults.
C11_FileMergedOverDefaults ==
    startPc = "loaded" =>
        LET d == DefaultsOf(environment)
            given == IF configFile.state = "object" THEN configFile.json ELSE <<>>
        IN /\ DOMAIN config = DOMAIN d
           /\ \A k \in {"port", "logLevel"} :
                 config[k] = IF k \in DOMAIN given THEN given[k] ELSE d[k]
           /\ DOMAIN config["coverageThresholds"] = ThresholdNames
           /\ \A t \in ThresholdNames :
                 config["coverageThresholds"][t] =
                    IF /\ "coverageThresholds" \in DOMAIN given
                       /\ t \in DOMAIN given["coverageThresholds"]
                    THEN given["coverageThresholds"][t]
                    ELSE d["coverageThresholds"][t]

\* the same for the top-level fields alone, and for a file that is absent or
\* unreadable
C11_TopLevelMerged ==
    startPc = "loaded" =>
        LET d == DefaultsOf(environment)
        IN IF configFile.state = "object"
           THEN \A k \in DOMAIN d :
                   config[k] = IF k \in DOMAIN configFile.json
                               THEN configFile.json[k] ELSE d[k]
           ELSE config = d

\* ------------------------------------------- generateTests: the layout
\* the input names a file <projectRoot>/<d>/<N><ext> with a supported extension
InProject(root, f) ==
    LET a == AbsPath(root, f)
    IN /\ Len(a) > Len(root)
       /\ SubSeq(a, 1, Len(root)) = root
       /\ Up \notin Range(a)
       /\ Extname(a) \in SupportedExts

\* <projectRoot>/__tests__/<d>/<N>.test<ext> for the source <projectRoot>/<d>/<N><ext>
MirroredTarget(root, a) ==
    LET d == SubSeq(a, Len(root) + 1, Len(a) - 1)
        name == Last(a)
    IN root \o <<TestsDirName>> \o d \o <<Front(name) \o <<"test", Last(name)>>>>

\* the file an import specifier denotes for a module in directory dir
ResolveImport(dir, specifier) == NormalizeAbs(dir \o specifier)

CoverageFinal == "coverage/coverage-final.json"

\* an artifact path of its own for every request
CoveragePathPerRequest(r) == <<CoverageFinal, r>>

\* path.join(projectRoot, 'coverage', 'coverage-final.json')
CoveragePath(r) == <<CoverageFinal>>

\* what a run of the test runner may leave at the artifact path
RunOutputs == [valid : {TRUE}, cov : CovSamples] \cup [valid : {FALSE}, cov : {<<>>}]

NewFlight(kind) ==
    [kind |-> kind, pc |-> "idle", wrote |-> FALSE, error |-> FALSE, reads |-> 0,
     settled |-> 0, outcome |-> "pending", readFrom |-> -1, lastAtRead |-> -1,
     output |-> <<>>, found |-> "none", seen |-> <<>>, resp |-> Json(0, "absent", "")]

\* the runner of request r writes the artifact
Written(r, out) ==
    [p \in DOMAIN artifacts \cup {CoveragePath(r)} |->
        IF p = CoveragePath(r) THEN [by |-> r, valid |-> out.valid, cov |-> out.cov]
        ELSE artifacts[p]]

\* exec(vitestCmd, { cwd: projectRoot }, callback): the child process starts
StartRunner(r) ==
    /\ flights[r].pc = "idle"
    /\ flights[r].kind = "analyze"
    /\ flights' = [flights EXCEPT ![r].pc = "running"]
    /\ UNCHANGED <<artifacts, lastWriter, notRace>>

\* the child process writes the coverage artifact
RunnerWrites(r) ==
    /\ flights[r].pc = "running"
    /\ ~flights[r].wrote
    /\ \E out \in RunOutputs :
          /\ artifacts' = Written(r, out)
          /\ flights' = [flights EXCEPT ![r].wrote = TRUE, ![r].output = out.cov]
    /\ lastWriter' = r
    /\ UNCHANGED notRace

\* the child process exits, with or without an error
RunnerExits(r) ==
    /\ flights[r].pc = "running"
    /\ \E error \in BOOLEAN :
          flights' = [flights EXCEPT ![r].pc = "exited", ![r].error = error]
    /\ UNCHANGED <<artifacts, lastWriter, notRace>>

\* execSync('npx vitest run --coverage --reporter=json'): the run of a
\* /coverage-diff request, start to exit, with the event loop blocked
RunSync(r) ==
    /\ flights[r].pc = "idle"
    /\ flights[r].kind = "diff"
    /\ \E error \in BOOLEAN, writes \in BOOLEAN, out \in RunOutputs :
          /\ flights' = [flights EXCEPT ![r].pc = "exited", ![r].error = error,
                                         ![r].wrote = writes,
                                         ![r].output = IF writes THEN out.cov ELSE <<>>]
          /\ IF writes
             THEN artifacts' = Written(r, out) /\ lastWriter' = r
             ELSE UNCHANGED <<artifacts, lastWriter>>
    /\ UNCHANGED notRace

\* a callback that goes on to read the artifact after it has rejected
RejectAndGoOn(fl) ==
    [fl EXCEPT !.pc = "reading", !.settled = fl.settled + 1,
               !.outcome = "rejectedExec", !.resp = Caught("exec error")]

\* if (error) { return reject({ error: error.message, stderr }); }
RejectExec(fl) ==
    [fl EXCEPT !.pc = "done", !.settled = fl.settled + 1,
               !.outcome = "rejectedExec", !.resp = Caught("exec error")]

\* the head of the exec callback (for execSync: the exception it throws)
RunnerCallback(r) ==
    /\ flights[r].pc = "exited"
    /\ flights' = [flights EXCEPT ![r] =
                      IF flights[r].error THEN RejectExec(flights[r])
                      ELSE [flights[r] EXCEPT !.pc = "reading"]]
    /\ UNCHANGED <<artifacts, lastWriter, notRace>>

\* await fs.readFile(coveragePath); JSON.parse; the loops; resolve or reject
ReadArtifact(r) ==
    /\ flights[r].pc = "reading"
    /\ LET path == CoveragePath(r)
           present == path \in DOMAIN artifacts
           ok == present /\ artifacts[path].valid
           fl == [flights[r] EXCEPT !.pc = "done", !.reads = flights[r].reads + 1,
                                    !.settled = flights[r].settled + 1,
                                    !.lastAtRead = lastWriter,
                                    !.found = IF ~present THEN "missing"
                                              ELSE IF ok THEN "valid" ELSE "invalid",
                                    !.readFrom = IF present THEN artifacts[path].by ELSE -1]
       IN flights' = [flights EXCEPT ![r] =
             IF ok
             THEN [fl EXCEPT !.outcome = "resolved", !.seen = artifacts[path].cov,
                             !.resp = AnalyzeCoverageHandler(
                                          [hasPath |-> TRUE, execFails |-> FALSE,
                                           readFails |-> FALSE,
                                           cov |-> artifacts[path].cov]).resp]
             ELSE [fl EXCEPT !.outcome = "rejectedRead",
                             !.resp = Caught("Failed to read coverage file")]]
    /\ UNCHANGED <<artifacts, lastWriter, notRace>>

RaceNext ==
    \/ \E r \in DOMAIN flights : StartRunner(r)
    \/ \E r \in DOMAIN flights : RunnerWrites(r)
    \/ \E r \in DOMAIN flights : RunnerExits(r)
    \/ \E r \in DOMAIN flights : RunSync(r)
    \/ \E r \in DOMAIN flights : RunnerCallback(r)
    \/ \E r \in DOMAIN flights : ReadArtifact(r)

\* requests of one kind arrive for one directory, which may hold the artifact
\* of an earlier run (writer 0)
RaceInit ==
    /\ \E kind \in {"analyze", "diff"}, n \in 1..MaxFlights :
          flights = [r \in 1..n |-> NewFlight(kind)]
    /\ \/ artifacts = <<>>
       \/ \E out \in RunOutputs :
             artifacts = [p \in {<<CoverageFinal>>} |->
                             [by |-> 0, valid |-> out.valid, cov |-> out.cov]]
    /\ lastWriter = 0
    /\ FsIdle /\ GenIdle /\ SetupIdle /\ CovIdle /\ DiffIdle /\ PlugIdle /\ HttpIdle
    /\ LaterIdleBut("race")

SpecRace == RaceInit /\ [][RaceNext]_vars

\* C13: nothing separates a request's run from its read: every request reads
\* the one shared artifact, so what it reads is what the run that wrote last
\* left there, its own or another request's.
C13_ReadsLastWrite ==
    \A r \in DOMAIN flights :
        (flights[r].reads > 0 /\ flights[r].readFrom # -1) =>
            flights[r].readFrom = flights[r].lastAtRead

\* request 1 ran to a successful exit and was then answered from the artifact
\* that the run of request 2 wrote, which is not what its own run had written
C13_Witness ==
    /\ 2 \in DOMAIN flights
    /\ flights[1].wrote
    /\ flights[1].outcome = "resolved"
    /\ flights[1].readFrom = 2
    /\ flights[1].resp.status = 200
    /\ flights[1].seen # flights[1].output

\* C20: analyzeCoverage. When the runner exits with an error the promise is
\* rejected without a read of the artifact, present or not, and the endpoint
\* answers 500 success:false; when the runner succeeds and the artifact is
\* missing or is not JSON it is rejected with 'Failed to read coverage file';
\* the promise is settled once, and no more than once on the way.
C20_RejectsAndSettlesOnce ==
    \A r \in DOMAIN flights :
        LET fl == flights[r]
        IN fl.kind = "analyze" =>
              /\ fl.settled <= 1
              /\ (fl.pc = "done" => fl.settled = 1)
              /\ (fl.pc = "done" /\ fl.error =>
                     /\ fl.outcome = "rejectedExec"
                     /\ fl.reads = 0
                     /\ fl.resp.status = 500 /\ fl.resp.success = "false")
              /\ (fl.pc = "done" /\ ~fl.error /\ fl.found \in {"missing", "invalid"} =>
                     /\ fl.outcome = "rejectedRead"
                     /\ fl.resp.status = 500 /\ fl.resp.success = "false"
                     /\ fl.resp.text = "Failed to read coverage file")
              /\ (fl.pc = "done" /\ ~fl.error /\ fl.found = "valid" =>
                     fl.outcome = "resolved")

\* the runner of an /analyze-coverage request wrote a readable artifact and
\* exited with an error: the request was rejected and the artifact not read
C20_Witness ==
    \E r \in DOMAIN flights :
        /\ flights[r].kind = "analyze"
        /\ flights[r].pc = "done"
        /\ flights[r].error
        /\ flights[r].wrote
        /\ CoveragePath(r) \in DOMAIN artifacts
        /\ artifacts[CoveragePath(r)].valid
        /\ flights[r].outcome = "rejectedExec"

\* ------------------------------------------------- the documented workflow
\* README, "Full Workflow to Reach 100% Coverage": analyze; stop when nothing
\* is uncovered; otherwise generate tests for the uncovered files; repeat.
\* The project's source files, each with two statements. A test covers some of
\* the statements of its source file: covers is what the test present for a
\* file covers, skeleton what a generated render test would.
LoopFiles == {"a.ts", "b.ts"}

\* the artifact a run of the test runner writes
CoverageOfTests ==
    [f \in LoopFiles |->
        [s |-> [id \in StmtIds |->
                   IF f \in tested /\ id \in covers[f] THEN 1 ELSE 0]]]

\* generateTests for the listed files: a file that has a test is skipped
WriteMissingTests(files) ==
    [tested |-> tested \cup files,
     covers |-> [f \in LoopFiles |->
                    IF f \in files /\ f \notin tested THEN skeleton[f] ELSE covers[f]]]

\* POST /analyze-coverage, and the test on the list it returns
LoopAnalyze ==
    /\ loopPc = "analyze"
    /\ LET files == Dedup(FilesOf(Uncovered(CoverageOfTests)))
       IN /\ listed' = files
          /\ loopPc' = IF files = <<>> THEN "stopped" ELSE "generate"
    /\ UNCHANGED <<tested, covers, skeleton, notLoop>>

\* POST /generate-tests with the listed files
LoopGenerate ==
    /\ loopPc = "generate"
    /\ LET after == WriteMissingTests(Range(listed))
       IN tested' = after.tested /\ covers' = after.covers
    /\ loopPc' = "analyze"
    /\ UNCHANGED <<skeleton, listed, notLoop>>

LoopNext == LoopAnalyze \/ LoopGenerate

LoopInit ==
    /\ loopPc = "analyze"
    /\ tested \in SUBSET LoopFiles
    /\ covers \in [LoopFiles -> {{}, StmtIds}]
    /\ \A f \in LoopFiles \ tested : covers[f] = {}
    /\ skeleton \in [LoopFiles -> SUBSET StmtIds]
    /\ listed = <<>>
    /\ FsIdle /\ GenIdle /\ SetupIdle /\ CovIdle /\ DiffIdle /\ PlugIdle /\ HttpIdle
    /\ LaterIdleBut("loop")

SpecLoop == LoopInit /\ [][LoopNext]_vars

\* the client goes on with the loop for as long as it has a step to take
SpecLoopFair == SpecLoop /\ WF_vars(LoopNext)

\* C14: the loop eventually stops, and when it has stopped nothing is
\* uncovered in the artifact.
C14_LoopStopsCovered ==
    <>(loopPc = "stopped" /\ Uncovered(CoverageOfTests) = <<>>)

\* what does hold: the loop stops only with nothing uncovered
C14_StopsOnlyWhenCovered ==
    loopPc = "stopped" => Uncovered(CoverageOfTests) = <<>>

\* ------------------------------------------------------------ profileTests
\* A test of the runner's JSON report: its duration in milliseconds and
\* whether its title contains 'renders'. Its position in the report stands
\* for its fullName.
ReportedTests ==
    { [duration |-> 0, renders |-> FALSE], [duration |-> 5, renders |-> TRUE],
      [duration |-> 600, renders |-> FALSE], [duration |-> 2500, renders |-> FALSE],
      [duration |-> 30000, renders |-> FALSE] }

Named(ts) == [i \in 1..Len(ts) |-> [fullName |-> i, duration |-> ts[i].duration,
                                     renders |-> ts[i].renders]]

\* .sort((a, b) => b.duration - a.duration): stable, slowest first
RECURSIVE SortByDuration(_)
SortByDuration(ts) ==
    IF ts = <<>> THEN <<>>
    ELSE LET rest == SortByDuration(Front(ts))
             x == Last(ts)
             k == Cardinality({i \in 1..Len(rest) : rest[i].duration >= x.duration})
         IN SubSeq(rest, 1, k) \o <<x>> \o SubSeq(rest, k + 1, Len(rest))

RECURSIVE SumDurations(_)
SumDurations(ts) ==
    IF ts = <<>> THEN 0 ELSE ts[1].duration + SumDurations(Tail(ts))

\* test.duration > threshold * 2 with threshold = Math.max(1000, avgDuration * 2)
\* and avgDuration = total / n: d > 2000 and d > 4 * total / n
AboveTwiceThreshold(d, total, n) == d > 2 * 1000 /\ d * n > 2 * (2 * total)

Names(ts) == [i \in 1..Len(ts) |-> ts[i].fullName]

\* generateRecommendations(sortedTests, slowThreshold)
GenerateRecommendations(sorted) ==
    LET total == SumDurations(sorted)
        n == Len(sorted)
        verySlow == SelectSeq(sorted,
                       LAMBDA t : AboveTwiceThreshold(t.duration, total, n))
        longRunning == SelectSeq(sorted, LAMBDA t : t.duration > 500)
        incomplete == SelectSeq(sorted, LAMBDA t : t.renders /\ t.duration < 10)
    IN (IF Len(verySlow) > 0
        THEN <<[type |-> "performance", severity |-> "high",
                affectedTests |-> Names(verySlow)]>>
        ELSE <<>>)
       \o (IF Len(longRunning) > 5
           THEN <<[type |-> "parallelization", severity |-> "medium",
                   affectedTests |-> Names(longRunning)]>>
           ELSE <<>>)
       \o (IF Len(incomplete) > 0
           THEN <<[type |-> "completeness", severity |-> "low",
                   affectedTests |-> Names(incomplete)]>>
           ELSE <<>>)

\* profileTests(): the tests with timing data, slowest first, and the
\* recommendations for them
ProfileTests ==
    /\ profPc = "idle"
    /\ profPc' = "done"
    /\ LET sorted == SortByDuration(SelectSeq(Named(testResults),
                                              LAMBDA t : t.duration > 0))
       IN profile' = [success |-> TRUE, sortedTests |-> sorted,
                      recommendations |-> GenerateRecommendations(sorted)]
    /\ UNCHANGED <<testResults, notProf>>

ProfNext == ProfileTests

ProfInit ==
    /\ profPc = "idle"
    /\ testResults \in SeqsUpTo(ReportedTests, MaxTests)
    /\ profile = <<>>
    /\ FsIdle /\ GenIdle /\ SetupIdle /\ CovIdle /\ DiffIdle /\ PlugIdle /\ HttpIdle
    /\ LaterIdleBut("prof")

SpecProf == ProfInit /\ [][ProfNext]_vars

PerformanceRecs ==
    {i \in 1..Len(profile.recommendations) :
        /\ profile.recommendations[i].type = "performance"
        /\ profile.recommendations[i].severity = "high"}

DurationOf(name) == testResults[name].duration

\* C15: when a timed test takes more than 2 seconds the profile has a
\* high-severity 'performance' recommendation, and every test such a
\* recommendation lists takes more than 2 seconds.
C15_SlowTestsRecommended ==
    profPc = "done" =>
        /\ (\E i \in 1..Len(testResults) : testResults[i].duration > 2000)
              => PerformanceRecs # {}
        /\ \A i \in PerformanceRecs :
              \A name \in Range(profile.recommendations[i].affectedTests) :
                  DurationOf(name) > 2000

\* the second half alone
C15_ListedTestsAreSlow ==
    profPc = "done" =>
        \A i \in PerformanceRecs :
            \A name \in Range(profile.recommendations[i].affectedTests) :
                DurationOf(name) > 2000

\* a profile with a 'performance' recommendation
C15_SomeRecommendation == profPc = "done" /\ PerformanceRecs # {}

\* --------------------------------------------------------- generateAITests
AiFileLimit == 5

AiDirName == <<"ai-generated">>

\* the entries of uncoveredFiles: { file } objects
AiEntries ==
    { [file |-> [abs |-> FALSE, segs |-> << <<"src">>, <<"App", "tsx">> >>]],
      [file |-> [abs |-> TRUE,  segs |-> << <<"w">>, <<"p">>, <<"lib">>, <<"App", "tsx">> >>]],
      [file |-> [abs |-> FALSE, segs |-> << <<"util", "ts">> >>]] }

UtilSource == << <<"w">>, <<"p">>, <<"util", "ts">> >>

\* a loop over every entry
AiNoSlice(entries) == entries

\* uncoveredFiles.slice(0, 5)
AiSlice(entries) ==
    SubSeq(entries, 1, IF Len(entries) < AiFileLimit THEN Len(entries) ELSE AiFileLimit)

\* path.join(path.join(projectRoot, '__tests__', 'ai-generated'),
\*           `${componentName}.test${ext}`)
AiTestFile(root, entry) ==
    LET a == AbsPath(root, entry.file)
    IN Append(Join(root, <<TestsDirName, AiDirName>>),
              Basename(a) \o <<"test", Extname(a)>>)

\* a directory of the project: one that holds a source file
AiIsDirectory(p) == \E s \in sources : p \in Ancestors(Front(s))

\* fs.existsSync(filePath): true of files and of directories
AiExistsSync(p) == p \in sources \/ AiIsDirectory(p)

\* generateAITests(projectRoot, uncoveredFiles) is called. The variant on the
\* LLM service initialises the service first and throws when that fails; the
\* OpenAI variant builds its client.
CallGenerateAITests ==
    /\ aiPc = "idle"
    /\ IF aiVariant = "llm service"
       THEN \E loaded \in {"fail", "ollama"}, healthy \in BOOLEAN :
               LET init == Initialize(provider, loaded, healthy)
               IN /\ provider' = init.provider
                  /\ aiPc' = IF init.ok THEN "loop" ELSE "threw"
       ELSE aiPc' = "loop" /\ UNCHANGED provider
    /\ fs0' = fs
    /\ UNCHANGED <<fs, dirs, aiVariant, aiEntries, aiIdx, generatedFiles, sources>>
    /\ UNCHANGED <<config, req, resp, effects, nreq>>
    /\ UNCHANGED <<genVars, setupVars, covVars, diffVars, plugVars, cfgVars, raceVars,
                   loopVars, profVars, againVars, gitVars, mlxVars, reportVars>>

\* one pass of the for loop: the source is looked up and read, the backend is
\* asked, and its text is written when the target does not exist. A failure of
\* the backend is caught and logged.
AiIterate ==
    /\ aiPc = "loop"
    /\ aiIdx < Len(AiSlice(aiEntries))
    /\ aiIdx' = aiIdx + 1
    /\ LET entry == AiSlice(aiEntries)[aiIdx + 1]
           filePath == AbsPath(Root, entry.file)
           t == AiTestFile(Root, entry)
       IN IF ~AiExistsSync(filePath)
          THEN UNCHANGED <<fs, dirs, generatedFiles, aiPc>>
          ELSE IF AiIsDirectory(filePath)
          THEN \* readFile rejects (EISDIR) outside the try block
               aiPc' = "threw" /\ UNCHANGED <<fs, dirs, generatedFiles>>
          ELSE /\ UNCHANGED aiPc
               /\ \E completion \in {"text", "empty", "throws"} :
                  IF completion # "text"
                  THEN UNCHANGED <<fs, dirs, generatedFiles>>
                  ELSE /\ dirs' = dirs \cup Ancestors(Front(t))
                       /\ IF PathExists(t)
                          THEN UNCHANGED <<fs, generatedFiles>>
                          ELSE /\ fs' = [p \in DOMAIN fs \cup {t} |->
                                            IF p = t
                                            THEN [kind |-> "ai", entry |-> aiIdx + 1]
                                            ELSE fs[p]]
                               /\ generatedFiles' = Append(generatedFiles, t)
    /\ UNCHANGED <<fs0, aiVariant, aiEntries, sources>>
    /\ UNCHANGED <<httpVars, genVars, setupVars, covVars, diffVars, plugVars, cfgVars,
                   raceVars, loopVars, profVars, againVars, gitVars, mlxVars, reportVars>>

\* return generatedFiles
ReturnGenerateAITests ==
    /\ aiPc = "loop"
    /\ aiIdx = Len(AiSlice(aiEntries))
    /\ aiPc' = "returned"
    /\ UNCHANGED <<fsVars, aiVariant, aiEntries, aiIdx, generatedFiles, sources>>
    /\ UNCHANGED <<httpVars, genVars, setupVars, covVars, diffVars, plugVars, cfgVars,
                   raceVars, loopVars, profVars, againVars, gitVars, mlxVars, reportVars>>

AiNext == CallGenerateAITests \/ AiIterate \/ ReturnGenerateAITests

\* a project whose ai-generated directory may hold a test of the user
AiInit ==
    /\ aiPc = "idle"
    /\ aiVariant \in {"llm service", "openai client"}
    /\ aiEntries \in SeqsUpTo(AiEntries, MaxEntries)
    /\ aiIdx = 0
    /\ generatedFiles = <<>>
    /\ \E utilExists \in BOOLEAN :
          sources = { << <<"w">>, <<"p">>, <<"src">>, <<"App", "tsx">> >>,
                      << <<"w">>, <<"p">>, <<"lib">>, <<"App", "tsx">> >> }
                    \cup (IF utilExists THEN {UtilSource} ELSE {})
    /\ \E userTest \in BOOLEAN :
          LET t == Join(Root, <<TestsDirName, AiDirName, <<"App", "test", "tsx">> >>)
          IN IF userTest
             THEN fs = [p \in {t} |-> UserContent] /\ dirs = Ancestors(Front(t))
             ELSE fs = <<>> /\ dirs = Ancestors(Root)
    /\ fs0 = fs
    /\ GenIdle /\ SetupIdle /\ CovIdle /\ DiffIdle /\ PlugIdle /\ HttpIdle
    /\ LaterIdleBut("ai")

SpecAi == AiInit /\ [][AiNext]_vars

\* C16: generateAITests goes through the first five entries at most; what it
\* writes is the backend's text, at <projectRoot>/__tests__/ai-generated/
\* <N>.test<ext> of one of those entries, and only where no file was; a file
\* that was there keeps its content; the returned list is the paths written by
\* the call, each once, five at most.
C16_AiWritesOnlyNewFiles ==
    aiPc \in {"loop", "returned"} =>
        /\ aiIdx <= AiFileLimit
        /\ \A p \in DOMAIN fs0 : p \in DOMAIN fs /\ fs[p] = fs0[p]
        /\ \A p \in DOMAIN fs \ DOMAIN fs0 :
              /\ fs[p].kind = "ai"
              /\ \E i \in 1..Len(aiEntries) :
                    i <= AiFileLimit /\ p = AiTestFile(Root, aiEntries[i])
        /\ Range(generatedFiles) = DOMAIN fs \ DOMAIN fs0
        /\ Len(generatedFiles) = Cardinality(Range(generatedFiles))
        /\ Len(generatedFiles) <= AiFileLimit

\* a call with six entries has returned: the sixth, util.ts, exists and was not
\* processed; the one test written is App.test.tsx, which was in the way of a
\* later entry with the same component name
C16_Witness ==
    /\ aiPc = "returned"
    /\ Len(aiEntries) = 6
    /\ aiEntries[6].file.segs = << <<"util", "ts">> >>
    /\ UtilSource \in sources
    /\ AiTestFile(Root, aiEntries[6]) \notin DOMAIN fs
    /\ Len(generatedFiles) = 1
    /\ fs0 = <<>>
    /\ aiEntries[1].file # aiEntries[2].file
    /\ fs[generatedFiles[1]].entry = 1

\* ------------------------------------ generateTests: tasks with one target
\* C17: when two input paths of a call resolve to the same test file, the file
\* is written at most once and is at most once among the returned paths: no
\* task writes a file that another task has created since it checked. For the
\* lists the handler passes on, in which no string occurs twice.
C17_TargetWrittenOnce ==
    Distinct(uncoveredFiles) =>
        /\ \A i, j \in 1..Len(tasks) :
              (i # j /\ tasks[i].result # NoPath) => tasks[i].result # tasks[j].result
        /\ (phase = "returned" => Distinct(returned))

\* what does hold when no two inputs of the call share a target
C17_DistinctTargetsWrittenOnce ==
    (\A i, j \in 1..Len(uncoveredFiles) :
        i # j => TestFile(projectRoot, uncoveredFiles[i])
                    # TestFile(projectRoot, uncoveredFiles[j]))
    => C17_TargetWrittenOnce

\* ------------------------------------------ generateTests, called again
\* the caller calls generateTests a second time with the same projectRoot and
\* the same list, after the first call has returned
CallGenerateTestsAgain ==
    /\ phase = "returned"
    /\ repeats = 0
    /\ repeats' = 1
    /\ phase' = "running"
    /\ tasks' = [i \in 1..Len(uncoveredFiles) |-> StartTask(projectRoot, uncoveredFiles[i])]
    /\ returned' = <<>>
    /\ fs0' = fs
    /\ UNCHANGED <<fs, dirs, projectRoot, uncoveredFiles>>
    /\ UNCHANGED <<setupVars, covVars, diffVars, plugVars, httpVars, cfgVars, raceVars,
                   loopVars, profVars, aiVars, gitVars, mlxVars, reportVars>>

GenTwiceNext == GenNext \/ CallGenerateTestsAgain

SpecGenTwice == GenInit /\ [][GenTwiceNext]_vars

\* C18: the second of two calls in sequence with the same arguments creates or
\* changes no file and returns the empty list.
C18_SecondCallChangesNothing ==
    repeats = 1 =>
        /\ fs = fs0
        /\ \A i \in 1..Len(tasks) : tasks[i].result = NoPath
        /\ phase # "threw"
        /\ (phase = "returned" => returned = <<>>)

\* the second call has returned, after a first call that wrote a test
C18_Witness ==
    /\ repeats = 1
    /\ phase = "returned"
    /\ returned = <<>>
    /\ \E p \in DOMAIN fs : fs[p].kind = "template"
    /\ Len(uncoveredFiles) = 2

\* ------------------------------- generateCoverageDiff and the repository
\* The repository: the branch checked out, the branch checked out before it
\* (what `git checkout -` goes to, NULL when there is none) and the branches
\* that exist.
BranchNames == {"main", "feature", "other"}

\* execSync(`git checkout ${baseBranch}`) where the branch exists
Checkout(target) == [branch |-> target, prevBranch |-> branch]

\* execSync('git checkout -'): to the branch checked out before this one
CheckoutPrevious == [branch |-> prevBranch, prevBranch |-> branch]

\* the first run and the read of its artifact, outside the try block: a
\* failure is thrown to the caller
DiffCurrentRun ==
    /\ gitPc = "start"
    /\ \E fail \in {"none", "run", "read"} :
          gitPc' = IF fail = "none" THEN "checkoutBase" ELSE "threw"
    /\ UNCHANGED <<branch, prevBranch, startBranch, baseBranch, branches, notGit>>

\* execSync(`git checkout ${baseBranch}`)
DiffCheckoutBase ==
    /\ gitPc = "checkoutBase"
    /\ IF baseBranch \in branches
       THEN /\ branch' = Checkout(baseBranch).branch
            /\ prevBranch' = Checkout(baseBranch).prevBranch
            /\ gitPc' = "baseRun"
       ELSE /\ gitPc' = "catch"
            /\ UNCHANGED <<branch, prevBranch>>
    /\ UNCHANGED <<startBranch, baseBranch, branches, notGit>>

\* the run on the base branch and the read of its artifact
DiffBaseRun ==
    /\ gitPc = "baseRun"
    /\ \E fail \in {"none", "run", "read"} :
          gitPc' = IF fail = "none" THEN "checkoutBack" ELSE "catch"
    /\ UNCHANGED <<branch, prevBranch, startBranch, baseBranch, branches, notGit>>

\* execSync('git checkout -'); computeDiff; return { success: true, diff }
DiffCheckoutBack ==
    /\ gitPc = "checkoutBack"
    /\ branch' = CheckoutPrevious.branch
    /\ prevBranch' = CheckoutPrevious.prevBranch
    /\ gitPc' = "returnedDiff"
    /\ UNCHANGED <<startBranch, baseBranch, branches, notGit>>

\* catch (error) { execSync('git checkout -'); return { success: false, ... } }
\* with no earlier branch `git checkout -` fails and the call throws
DiffCatch ==
    /\ gitPc = "catch"
    /\ IF prevBranch = NULL
       THEN gitPc' = "threw" /\ UNCHANGED <<branch, prevBranch>>
       ELSE /\ branch' = CheckoutPrevious.branch
            /\ prevBranch' = CheckoutPrevious.prevBranch
            /\ gitPc' = "returnedFailure"
    /\ UNCHANGED <<startBranch, baseBranch, branches, notGit>>

GitNext ==
    \/ DiffCurrentRun
    \/ DiffCheckoutBase
    \/ DiffBaseRun
    \/ DiffCheckoutBack
    \/ DiffCatch

\* generateCoverageDiff(baseBranch) is called in a repository on some branch
GitInit ==
    /\ gitPc = "start"
    /\ branches \in SUBSET BranchNames
    /\ branch \in branches
    /\ prevBranch \in (branches \ {branch}) \cup {NULL}
    /\ startBranch = branch
    /\ baseBranch \in BranchNames
    /\ FsIdle /\ GenIdle /\ SetupIdle /\ CovIdle /\ DiffIdle /\ PlugIdle /\ HttpIdle
    /\ LaterIdleBut("git")

SpecGit == GitInit /\ [][GitNext]_vars

\* C19: on every path on which generateCoverageDiff returns, the repository
\* is on the branch it was on when the call was made.
C19_ReturnsOnStartBranch ==
    gitPc \in {"returnedDiff", "returnedFailure"} => branch = startBranch

\* what does hold: once the base branch has been checked out, the call
\* returns on the branch it started on
C19_BackAfterCheckout ==
    (gitPc \in {"returnedDiff", "returnedFailure"} /\ baseBranch \in branches)
        => branch = startBranch

\* ------------------------------------------- setupVitest: a failed install
\* the answer of the /setup-vitest router once the awaited call has settled:
\* res.json({ success: true, result }) or the catch block's 500
SetupVitestAnswer ==
    IF setupPc = "rejected" THEN Caught(setupResult.error)
    ELSE Json(200, "true", "")

\* the two files setupVitest may write
SetupTargets == {ConfigPath(projectRoot), SetupPath(projectRoot)}

\* C21: setupVitest starts the install only after both file checks and writes
\* are done; the installer is yarn exactly when yarn.lock exists in the project
\* root, npm otherwise; a failed install rejects (answered with HTTP 500,
\* success:false) and the files the call created stay on disk.
C21_InstallLastNoRollback ==
    /\ setupPc \in {"install", "resolved", "rejected"} =>
          /\ SetupTargets \subseteq DOMAIN fs
          /\ installCmd = IF YarnLock(projectRoot) \in DOMAIN fs0
                          THEN "yarn add -D" ELSE "npm install --save-dev"
    /\ setupPc \in {"idle", "checkConfig", "writeConfig", "checkSetup",
                    "ensureDir", "writeSetup", "checkYarn"} => installCmd = NULL
    /\ setupPc = "rejected" =>
          /\ SetupVitestAnswer.status = 500
          /\ SetupVitestAnswer.success = "false"
          /\ \A p \in SetupTargets :
                p \notin DOMAIN fs0 => p \in DOMAIN fs

\* the install with yarn failed after the call had created both files
C21_Witness ==
    /\ setupPc = "rejected"
    /\ SetupTargets \cap DOMAIN fs0 = {}
    /\ fs[ConfigPath(projectRoot)] = DefaultConfig
    /\ fs[SetupPath(projectRoot)] = DefaultSetupFile
    /\ installCmd = "yarn add -D"
    /\ PackageLock(projectRoot) \in DOMAIN fs0

\* ------------------------------- generateAITests: failures inside the loop
\* an entry that names a directory of the project
AiDirEntry == [file |-> [abs |-> FALSE, segs |-> << <<"src">> >>]]

\* requests whose entries may name a directory as well as files
AiReadInit ==
    /\ aiPc = "idle"
    /\ aiVariant \in {"llm service", "openai client"}
    /\ aiEntries \in SeqsUpTo(AiEntries \cup {AiDirEntry}, MaxReadEntries)
    /\ aiIdx = 0
    /\ generatedFiles = <<>>
    /\ \E utilExists \in BOOLEAN :
          sources = { << <<"w">>, <<"p">>, <<"src">>, <<"App", "tsx">> >>,
                      << <<"w">>, <<"p">>, <<"lib">>, <<"App", "tsx">> >> }
                    \cup (IF utilExists THEN {UtilSource} ELSE {})
    /\ fs = <<>> /\ dirs = Ancestors(Root)
    /\ fs0 = fs
    /\ GenIdle /\ SetupIdle /\ CovIdle /\ DiffIdle /\ PlugIdle /\ HttpIdle
    /\ LaterIdleBut("ai")

SpecAiRead == AiReadInit /\ [][AiNext]_vars

\* C22: in generateAITests no failure for one file aborts the request: the
\* call throws only when the initialisation of the LLM service failed, and
\* then no entry was looked at and no file was written; in every other case
\* it goes through the entries in order and returns the paths it wrote.
C22_OnlyInitialisationThrows ==
    aiPc = "threw" => aiIdx = 0 /\ fs = fs0 /\ generatedFiles = <<>>

\* what does hold: a call that throws after a successful initialisation was
\* reading an entry that names a directory, and the files written for the
\* entries before it are on disk
C22_ThrowsAtInitOrUnreadable ==
    /\ aiPc = "threw" /\ aiIdx > 0 =>
          /\ AiIsDirectory(AbsPath(Root, aiEntries[aiIdx].file))
          /\ Range(generatedFiles) = DOMAIN fs \ DOMAIN fs0
    /\ aiPc = "returned" =>
          /\ aiIdx = Len(AiSlice(aiEntries))
          /\ \A i \in 1..Len(aiEntries) :
                ~AiIsDirectory(AbsPath(Root, aiEntries[i].file))

\* the call threw at its second entry after writing a test for the first
C22_ThrownAfterWrite ==
    /\ aiPc = "threw"
    /\ aiIdx = 2
    /\ Len(generatedFiles) = 1
    /\ generatedFiles[1] \in DOMAIN fs

\* ------------------------------------------- LocalLLMService: its life cycle
\* The service is driven directly here: effects is the log of the calls made,
\* req the last call, resp what it returned or threw.
LoadedConfigs == {"fail", "openai", "lmstudio", "ollama", "llamacpp", "mlx"}

\* isInitialized(): this.provider !== null
IsInitialized(prov) == prov # NULL

\* LocalLLMService.generateCompletion(prompt): throws without a provider, else
\* hands the prompt to the provider, which answers or throws
ServiceGenerateCompletion(prov, backendOk) ==
    IF prov = NULL
    THEN [ok |-> FALSE, value |-> "LLM service not initialized"]
    ELSE IF backendOk
         THEN [ok |-> TRUE, value |-> "completion"]
         ELSE [ok |-> FALSE, value |-> "backend error"]

\* await localLLMService.initialize()
CallInitialize ==
    /\ nreq < MaxCalls
    /\ \E loaded \in LoadedConfigs, healthy \in BOOLEAN :
          LET init == Initialize(provider, loaded, healthy)
          IN /\ provider' = init.provider
             /\ req' = [op |-> "initialize", loaded |-> loaded]
             /\ resp' = [ok |-> TRUE, value |-> IF init.ok THEN "true" ELSE "false"]
             /\ effects' = Append(effects, [op |-> "initialize", returned |-> init.ok,
                                            loaded |-> loaded])
    /\ nreq' = nreq + 1
    /\ UNCHANGED <<config, notHttp>>

\* await localLLMService.generateCompletion(prompt)
CallGenerateCompletion ==
    /\ nreq < MaxCalls
    /\ \E backendOk \in BOOLEAN :
          /\ req' = [op |-> "generateCompletion", loaded |-> "none"]
          /\ resp' = ServiceGenerateCompletion(provider, backendOk)
    /\ effects' = Append(effects, [op |-> "generateCompletion", returned |-> FALSE,
                                   loaded |-> "none"])
    /\ nreq' = nreq + 1
    /\ UNCHANGED <<config, provider, notHttp>>

LlmNext == CallInitialize \/ CallGenerateCompletion

\* new LocalLLMService(): provider = null
LlmInit ==
    /\ provider = NULL
    /\ config = NULL
    /\ req = [op |-> "none", loaded |-> "none"]
    /\ resp = [ok |-> TRUE, value |-> ""]
    /\ effects = <<>>
    /\ nreq = 0
    /\ FsIdle /\ GenIdle /\ SetupIdle /\ CovIdle /\ DiffIdle /\ PlugIdle
    /\ LaterIdle

SpecLlm == LlmInit /\ [][LlmNext]_vars

\* the initialize() calls made so far, in order
InitializeCalls == SelectSeq(effects, LAMBDA c : c.op = "initialize")

\* the most recent initialize() returned true
LastInitializeOk ==
    /\ InitializeCalls # <<>>
    /\ InitializeCalls[Len(InitializeCalls)].returned

\* C23: the service is usable exactly when it was initialised successfully:
\* isInitialized() is true, and generateCompletion() does not throw 'LLM
\* service not initialized', if and only if the most recent initialize()
\* returned true.
C23_UsableIffLastInitializeOk ==
    /\ IsInitialized(provider) <=> LastInitializeOk
    /\ \A b \in BOOLEAN :
          (ServiceGenerateCompletion(provider, b).value # "LLM service not initialized")
              <=> LastInitializeOk

\* what does hold: the service has a provider exactly when some initialize()
\* so far loaded a configuration, whatever the health check said and whatever
\* later calls returned
C23_UsableIffConfigurationLoaded ==
    IsInitialized(provider) <=>
        \E i \in 1..Len(InitializeCalls) : InitializeCalls[i].loaded # "fail"

\* initialize() returned false and the service still answers a completion
C23_UsableAfterFailedInitialize ==
    /\ ~LastInitializeOk
    /\ req.op = "generateCompletion"
    /\ resp.ok

\* ------------------------------------------ MLXProvider.generateCompletion
\* Calls are numbered; call c carries prompt c. mlxScript is what
\* <cwd>/mlx_generate.py holds: <<>> when the file is absent, <<c>> when it is
\* the script built around prompt c.
NoScript == <<>>

\* the script each call builds: its own prompt inside the template
PythonScript(c) == <<c>>


\* await fs.writeFile(scriptPath, pythonScript): the write lands on disk
MlxWriteFile(c) ==
    /\ mlxCalls[c].pc = "start"
    /\ mlxScript' = PythonScript(c)
    /\ mlxCalls' = [mlxCalls EXCEPT ![c].pc = "written"]
    /\ UNCHANGED notMlx

\* the call resumes after its write: execSync(`python3 ${scriptPath}`) runs
\* what the file holds now, and fails when the file is not there or when the
\* generation fails
MlxExecSync(c) ==
    /\ mlxCalls[c].pc = "written"
    /\ \E generationOk \in BOOLEAN :
          mlxCalls' = [mlxCalls EXCEPT
              ![c].pc = "removing",
              ![c].ran = mlxScript,
              ![c].ok = mlxScript # NoScript /\ generationOk]
    /\ UNCHANGED <<mlxScript, notMlx>>

\* await fs.remove(scriptPath), on both paths; then return result.trim() or
\* throw new Error(`MLX generation failed: ...`)
MlxRemove(c) ==
    /\ mlxCalls[c].pc = "removing"
    /\ mlxScript' = NoScript
    /\ mlxCalls' = [mlxCalls EXCEPT ![c].pc = IF mlxCalls[c].ok THEN "returned" ELSE "threw"]
    /\ UNCHANGED notMlx

MlxNext ==
    \/ \E c \in DOMAIN mlxCalls : MlxWriteFile(c)
    \/ \E c \in DOMAIN mlxCalls : MlxExecSync(c)
    \/ \E c \in DOMAIN mlxCalls : MlxRemove(c)

\* one to MaxMlxCalls calls have been made in one process; no script is left
\* from earlier calls
MlxInit ==
    /\ \E n \in 1..MaxMlxCalls :
          mlxCalls = [c \in 1..n |-> [pc |-> "start", ran |-> NoScript, ok |-> FALSE]]
    /\ mlxScript = NoScript
    /\ FsIdle /\ GenIdle /\ SetupIdle /\ CovIdle /\ DiffIdle /\ PlugIdle /\ HttpIdle
    /\ LaterIdleBut("mlx")

SpecMlx == MlxInit /\ [][MlxNext]_vars

MlxExecuted(c) == mlxCalls[c].pc \in {"removing", "returned", "threw"}

MlxCompleted(c) == mlxCalls[c].pc \in {"returned", "threw"}

\* C24: concurrent generateCompletion calls do not interfere through the
\* shared script file: the script a call executes is there and holds the
\* call's own prompt, and once all calls have completed the file is gone.
C24_CallsDoNotInterfere ==
    /\ \A c \in DOMAIN mlxCalls : MlxExecuted(c) => mlxCalls[c].ran = PythonScript(c)
    /\ (\A c \in DOMAIN mlxCalls : MlxCompleted(c)) => mlxScript = NoScript

\* what does hold: the file is gone once every call has completed, and a call
\* that runs alone executes its own script
C24_ScriptRemovedAtEnd ==
    /\ (\A c \in DOMAIN mlxCalls : MlxCompleted(c)) => mlxScript = NoScript
    /\ (DOMAIN mlxCalls = {1} /\ MlxExecuted(1)) => mlxCalls[1].ran = PythonScript(1)

\* call 1 returned the output of the script of call 2, and call 2 then found
\* no script to execute
C24_RanAnothersScript ==
    /\ 2 \in DOMAIN mlxCalls
    /\ mlxCalls[1].pc = "returned" /\ mlxCalls[1].ran = PythonScript(2)
    /\ mlxCalls[2].pc = "threw" /\ mlxCalls[2].ran = NoScript

\* ------------------------------------------------ the ci-generator plugin
\* process.cwd() of the server
Cwd == << <<"srv">> >>

\* path.join(process.cwd(), '.github', 'workflows')
WorkflowDir == Join(Cwd, << <<"", "github">>, <<"workflows">> >>)

\* path.join(workflowDir, 'vitest-coverage.yml')
WorkflowPath == Append(WorkflowDir, <<"vitest-coverage", "yml">>)

\* path.join(process.cwd(), '.gitlab-ci.yml')
GitlabPath == Append(Cwd, <<"", "gitlab-ci", "yml">>)

\* what the request body gives for platform: nothing, a supported name, or
\* another value
PlatformInputs == {"omitted", "github", "gitlab", "bitbucket", ""}

\* const { platform = 'github', projectName } = req.body
PlatformOf(input) == IF input = "omitted" THEN "github" ELSE input

\* the file generateCIConfig writes for a platform in its two branches
CIConfigPath(platform) == IF platform = "github" THEN WorkflowPath ELSE GitlabPath

CIConfigText(platform) == [kind |-> "ci", platform |-> platform]

\* the file system after generateCIConfig(platform) on the file system f, d:
\* the github branch ensures its directory first; a failing writeFile leaves
\* no file
CIDirsAfter(d, platform) ==
    IF platform = "github" THEN d \cup Ancestors(WorkflowDir) ELSE d

CIFilesAfter(f, platform, writeFails) ==
    IF GenerateCIConfig(platform, writeFails).success
    THEN [p \in DOMAIN f \cup {CIConfigPath(platform)} |->
             IF p = CIConfigPath(platform) THEN CIConfigText(platform) ELSE f[p]]
    ELSE f

\* POST /generate-workflow
CiPostGenerateWorkflow ==
    /\ nreq < MaxRequests
    /\ \E input \in PlatformInputs, writeFails \in BOOLEAN :
          LET platform == PlatformOf(input)
              result == GenerateCIConfig(platform, writeFails)
          IN /\ req' = [endpoint |-> "/generate-workflow", platform |-> input,
                        writeFails |-> <<writeFails>>]
             /\ fs' = CIFilesAfter(fs, platform, writeFails)
             /\ dirs' = IF platform \in {"github", "gitlab"}
                        THEN CIDirsAfter(dirs, platform) ELSE dirs
             /\ resp' = IF result.success THEN Json(200, "true", "")
                        ELSE Json(400, "false", result.failure)
    /\ fs0' = fs
    /\ nreq' = nreq + 1
    /\ UNCHANGED <<config, provider, effects, genVars, setupVars, covVars, diffVars,
                   plugVars, laterVars>>

\* POST /generate-all-workflows: github, then gitlab, then one answer
CiPostGenerateAllWorkflows ==
    /\ nreq < MaxRequests
    /\ \E githubFails \in BOOLEAN, gitlabFails \in BOOLEAN :
          /\ req' = [endpoint |-> "/generate-all-workflows", platform |-> "both",
                     writeFails |-> <<githubFails, gitlabFails>>]
          /\ fs' = CIFilesAfter(CIFilesAfter(fs, "github", githubFails),
                                "gitlab", gitlabFails)
          /\ dirs' = CIDirsAfter(dirs, "github")
          /\ resp' = Json(200, "true", "")
    /\ fs0' = fs
    /\ nreq' = nreq + 1
    /\ UNCHANGED <<config, provider, effects, genVars, setupVars, covVars, diffVars,
                   plugVars, laterVars>>

CiNext == CiPostGenerateWorkflow \/ CiPostGenerateAllWorkflows

\* the server's directory may hold either file, written by the user
CiInit ==
    /\ \E held \in SUBSET {WorkflowPath, GitlabPath} :
          /\ fs = [p \in held |-> UserContent]
          /\ dirs = Ancestors(Cwd)
                    \cup (IF WorkflowPath \in held THEN Ancestors(WorkflowDir) ELSE {})
    /\ fs0 = fs
    /\ config = NULL /\ provider = NULL /\ effects = <<>>
    /\ req = [endpoint |-> "none", platform |-> "none", writeFails |-> <<>>]
    /\ resp = Json(0, "absent", "")
    /\ nreq = 0
    /\ GenIdle /\ SetupIdle /\ CovIdle /\ DiffIdle /\ PlugIdle
    /\ LaterIdle

SpecCi == CiInit /\ [][CiNext]_vars


\* C25: generateCIConfig never throws and writes only for a supported
\* platform: 'github' (also when platform is omitted) writes
\* .github/workflows/vitest-coverage.yml, 'gitlab' writes .gitlab-ci.yml, and
\* any other value gives success:false, answered with HTTP 400, with no file
\* created or changed.
C25_WritesOnlySupportedPlatform ==
    req.endpoint = "/generate-workflow" =>
        /\ resp.status \in {200, 400}
        /\ req.platform \in {"github", "omitted"} /\ resp.status = 200 =>
              /\ resp.success = "true"
              /\ fs = [p \in DOMAIN fs0 \cup {WorkflowPath} |->
                          IF p = WorkflowPath THEN CIConfigText("github") ELSE fs0[p]]
        /\ req.platform = "gitlab" /\ resp.status = 200 =>
              /\ resp.success = "true"
              /\ fs = [p \in DOMAIN fs0 \cup {GitlabPath} |->
                          IF p = GitlabPath THEN CIConfigText("gitlab") ELSE fs0[p]]
        /\ req.platform \in {"github", "omitted", "gitlab"} =>
              (resp.status = 200 <=> req.writeFails = <<FALSE>>)
        /\ req.platform \notin {"github", "omitted", "gitlab"} =>
              /\ resp.status = 400
              /\ resp.success = "false"
              /\ fs = fs0

\* a request for an unsupported platform was answered 400 after an earlier
\* request had written the GitHub workflow, which is still there
C25_Witness ==
    /\ req.endpoint = "/generate-workflow"
    /\ req.platform = "bitbucket"
    /\ resp.status = 400
    /\ nreq = 2
    /\ WorkflowPath \in DOMAIN fs /\ fs[WorkflowPath] = CIConfigText("github")
    /\ GitlabPath \in DOMAIN fs /\ fs[GitlabPath] = UserContent

\* C26: POST /generate-all-workflows answers success:true only when both the
\* GitHub workflow and the GitLab configuration were written.
C26_SuccessOnlyWhenBothWritten ==
    (req.endpoint = "/generate-all-workflows" /\ resp.success = "true") =>
        /\ WorkflowPath \in DOMAIN fs /\ fs[WorkflowPath] = CIConfigText("github")
        /\ GitlabPath \in DOMAIN fs /\ fs[GitlabPath] = CIConfigText("gitlab")

\* what does hold: the answer is always 200 with success:true, and each file
\* is written exactly when its own generation did not fail
C26_AlwaysTopLevelSuccess ==
    req.endpoint = "/generate-all-workflows" =>
        /\ resp.status = 200 /\ resp.success = "true"
        /\ fs = CIFilesAfter(CIFilesAfter(fs0, "github", req.writeFails[1]),
                             "gitlab", req.writeFails[2])

\* both generations failed, nothing was written, and the answer was a success
C26_SuccessWithNothingWritten ==
    /\ req.endpoint = "/generate-all-workflows"
    /\ req.writeFails = <<TRUE, TRUE>>
    /\ resp.success = "true"
    /\ fs = <<>>

\* ------------------------- generateCoverageBadge and generateDiffSummary
\* x > 0, x < 0 and x >= 0 on a JavaScript number: false of NaN
JsPositive(x) == x.t = "number" /\ x.v > 0

JsNegative(x) == x.t = "number" /\ x.v < 0

\* the sum of one field over Object.values(diff), from 0
RECURSIVE SumField(_, _, _)
SumField(d, files, field) ==
    IF files = <<>> THEN Num(0)
    ELSE JsAdd(SumField(d, Front(files), field), d[Last(files)][field])

\* a count that takes an unchanged file for an improved one
IsImprovedOrSame(fileData) == ~JsNegative(fileData.statementChange)

\* if (fileData.statementChange > 0) improvedFiles++
IsImproved(fileData) == JsPositive(fileData.statementChange)

\* if (fileData.statementChange < 0) degradedFiles++
IsDegraded(fileData) == JsNegative(fileData.statementChange)

\* generateDiffSummary(diff)
GenerateDiffSummary(d) ==
    LET files == Keys(d, FileOrder)
        totalFiles == Len(files)
        improvedFiles == Cardinality({f \in DOMAIN d : IsImproved(d[f])})
        degradedFiles == Cardinality({f \in DOMAIN d : IsDegraded(d[f])})
    IN [totalFiles |-> totalFiles,
        improvedFiles |-> improvedFiles,
        degradedFiles |-> degradedFiles,
        unchangedFiles |-> totalFiles - improvedFiles - degradedFiles,
        totalStatementChange |-> SumField(d, files, "statementChange")]

\* the magnitude of a percentage in tenths, as toFixed(1) rounds it
Tenths(num, den) == (2000 * num + den) \div (2 * den)

\* `coverage Î” ${change.toFixed(1)}%`: the sign, the tenths of the percentage,
\* and the number of characters
DeltaLabel(negative, tenths) ==
    [negative |-> negative, tenths |-> tenths,
     length |-> 12 + (IF negative THEN 1 ELSE 0) + Len(Digits(tenths \div 10)) + 3]

NotAvailable == [negative |-> FALSE, tenths |-> -1, length |-> 3]

\* generateSimpleBadge(label, message, color): the SVG text; label and color
\* are not used in it
GenerateSimpleBadge(label, message, color) ==
    [width |-> IF message.length * 7 > 80 THEN message.length * 7 ELSE 80,
     rectFill |-> "#555", textFill |-> "#fff", text |-> message]

\* the arguments generateCoverageBadge hands to generateSimpleBadge
BadgeArguments(success, d) ==
    IF ~success THEN [message |-> NotAvailable, color |-> "lightgrey"]
    ELSE LET files == Keys(d, FileOrder)
             baseTotal == SumField(d, files, "baseStatements").v
             curTotal == SumField(d, files, "currentStatements").v
             negative == baseTotal # 0 /\ curTotal < baseTotal
             magnitude == IF curTotal < baseTotal THEN baseTotal - curTotal
                          ELSE curTotal - baseTotal
         IN [message |-> DeltaLabel(negative,
                            IF baseTotal = 0 THEN 0 ELSE Tenths(magnitude, baseTotal)),
             color |-> IF negative THEN "red" ELSE "brightgreen"]

\* generateCoverageBadge(): the diff is computed, or could not be
CallGenerateCoverageBadge ==
    /\ diffPc = "done"
    /\ "badge" \notin reportDone
    /\ \E success \in BOOLEAN :
          LET args == BadgeArguments(success, diff)
          IN badge' = [success |-> success, color |-> args.color,
                       svg |-> GenerateSimpleBadge("coverage", args.message, args.color)]
    /\ reportDone' = reportDone \cup {"badge"}
    /\ UNCHANGED <<summary, diffVars, notReport>>

\* summary: generateDiffSummary(diffResult.diff)
CallGenerateDiffSummary ==
    /\ diffPc = "done"
    /\ "summary" \notin reportDone
    /\ summary' = GenerateDiffSummary(diff)
    /\ reportDone' = reportDone \cup {"summary"}
    /\ UNCHANGED <<badge, diffVars, notReport>>

ReportNext == ComputeDiff \/ CallGenerateCoverageBadge \/ CallGenerateDiffSummary

\* coverage maps with statement counts only
ReportMaps ==
    UNION { [F -> [s : CountMaps(StmtIds)]] : F \in SUBSET {"a.ts", "b.ts"} }

ReportInit ==
    /\ base \in ReportMaps
    /\ current \in ReportMaps
    /\ diff = <<>>
    /\ diffPc = "idle"
    /\ reportDone = {} /\ badge = <<>> /\ summary = <<>>
    /\ FsIdle /\ GenIdle /\ SetupIdle /\ CovIdle /\ PlugIdle /\ HttpIdle
    /\ LaterIdleBut("report")

SpecReport == ReportInit /\ [][ReportNext]_vars

\* the colours that occur in an SVG badge
SvgColours(svg) == {svg.rectFill, svg.textFill}

\* the sum of the statement hits of all files of a coverage map
RECURSIVE TotalHits(_, _)
TotalHits(cov, files) ==
    IF files = {} THEN 0
    ELSE LET f == CHOOSE g \in files : TRUE
         IN StatementHits(cov, f) + TotalHits(cov, files \ {f})

\* C27: the badge reflects the sign of the coverage change: the SVG is
\* coloured brightgreen when change >= 0, red when change < 0, and lightgrey
\* with message 'N/A' when the diff could not be computed.
C27_BadgeColouredBySign ==
    "badge" \in reportDone =>
        LET b == TotalHits(base, DOMAIN base)
            c == TotalHits(current, DOMAIN current)
        IN IF ~badge.success
           THEN "lightgrey" \in SvgColours(badge.svg) /\ badge.svg.text = NotAvailable
           ELSE IF b # 0 /\ c < b
                THEN "red" \in SvgColours(badge.svg)
                ELSE "brightgreen" \in SvgColours(badge.svg)

\* what does hold: the colour is chosen by the sign and then dropped; every
\* badge has the same two fills, and only its text tells the sign
C27_SignInTextOnly ==
    "badge" \in reportDone =>
        LET b == TotalHits(base, DOMAIN base)
            c == TotalHits(current, DOMAIN current)
        IN /\ SvgColours(badge.svg) = {"#555", "#fff"}
           /\ badge.color = IF ~badge.success THEN "lightgrey"
                            ELSE IF b # 0 /\ c < b THEN "red" ELSE "brightgreen"
           /\ badge.success => (badge.svg.text.negative <=> (b # 0 /\ c < b))

\* the badge of a regression by half: -50.0%, with the fills of every badge
C27_RegressionBadge ==
    /\ "badge" \in reportDone
    /\ badge.success
    /\ badge.color = "red"
    /\ badge.svg.text.negative /\ badge.svg.text.tenths = 500
    /\ badge.svg.rectFill = "#555"

\* C30: generateDiffSummary partitions the files and totals the change: the
\* three counts are non-negative and sum to totalFiles, the number of diff
\* entries; a file is improved exactly when its statementChange > 0 and
\* degraded exactly when < 0; totalStatementChange is the sum of
\* statementChange over all files.
C30_SummaryPartitionsFiles ==
    "summary" \in reportDone =>
        LET improved == {f \in DOMAIN diff :
                            StatementHits(current, f) > StatementHits(base, f)}
            degraded == {f \in DOMAIN diff :
                            StatementHits(current, f) < StatementHits(base, f)}
        IN /\ summary.totalFiles = Cardinality(DOMAIN base \cup DOMAIN current)
           /\ summary.improvedFiles = Cardinality(improved)
           /\ summary.degradedFiles = Cardinality(degraded)
           /\ summary.unchangedFiles >= 0
           /\ summary.improvedFiles + summary.degradedFiles + summary.unchangedFiles
                 = summary.totalFiles
           /\ summary.totalStatementChange =
                 Num(TotalHits(current, DOMAIN current) - TotalHits(base, DOMAIN base))

\* a summary of two files, one improved and one degraded, that cancel out
C30_Witness ==
    /\ "summary" \in reportDone
    /\ summary.totalFiles = 2
    /\ summary.improvedFiles = 1
    /\ summary.degradedFiles = 1
    /\ summary.totalStatementChange = Num(0)

\* ------------------------------------------- loadPlugins: a failing plugin
\* the files of the directory the loop does not skip, in readdir order
LoadedFiles == SelectSeq(pluginFiles, LAMBDA file : ~Skipped(file.name))

\* the names of those whose default export has a router function
RouterNames ==
    LET withRouter == SelectSeq(LoadedFiles,
                                LAMBDA file : file.kind \in {"router", "routerThrows"})
    IN [i \in 1..Len(withRouter) |-> withRouter[i].name]

\* C28: plugin failures are isolated: a file whose import throws, whose router
\* throws or that has no valid default export does not keep loadPlugins from
\* going through every remaining file, loadPlugins does not throw, and the
\* server goes on to listen; without the plugins directory loadPlugins returns
\* having loaded nothing.
C28_PluginFailuresIsolated ==
    /\ loaderPc \in {"idle", "loop", "returned", "listening"}
    /\ loaderPc = "loop" => ENABLED (LoadOnePlugin \/ ReturnLoadPlugins)
    /\ loaderPc = "returned" => ENABLED Listen
    /\ loaderPc \in {"returned", "listening"} =>
          IF dirExists
          THEN pluginIdx = Len(pluginFiles) + 1 /\ routerCalls = RouterNames
          ELSE pluginIdx = 0 /\ routerCalls = <<>>

\* the server listens although the import of the first file threw; the router
\* of the second was invoked
C28_Witness ==
    /\ loaderPc = "listening"
    /\ Len(pluginFiles) = 2
    /\ ~Skipped(pluginFiles[1].name) /\ pluginFiles[1].kind = "importThrows"
    /\ pluginFiles[2].kind = "routerThrows"
    /\ routerCalls = <<pluginFiles[2].name>>

\* ------------------------------------- generateTests: where it may write
\* <projectRoot>/__tests__
TestsRoot(root) == Append(root, TestsDirName)

\* p is the directory d or lies below it
Inside(p, d) == Len(p) >= Len(d) /\ SubSeq(p, 1, Len(d)) = d

\* C29: every file and directory generateTests creates lies inside
\* <projectRoot>/__tests__, for every input path, absolute paths outside
\* projectRoot and relative paths with '..' segments included; an input whose
\* extension is not one of .tsx, .jsx, .js, .ts creates nothing.
C29_CreatesInsideTestsOnly ==
    /\ \A p \in DOMAIN fs \ DOMAIN fs0 : Inside(p, TestsRoot(projectRoot))
    /\ \A d \in dirs : d \in Ancestors(projectRoot) \/ Inside(d, TestsRoot(projectRoot))
    /\ \A i \in 1..Len(tasks) :
          Extname(AbsPath(projectRoot, tasks[i].input)) \notin SupportedExts =>
              tasks[i].result = NoPath

\* what does hold: for inputs inside the project everything created is inside
\* <projectRoot>/__tests__, and an unsupported extension creates nothing
C29_InsideForProjectInputs ==
    /\ (\A i \in 1..Len(uncoveredFiles) :
           InProject(projectRoot, uncoveredFiles[i])
           \/ Extname(AbsPath(projectRoot, uncoveredFiles[i])) \notin SupportedExts) =>
          /\ \A p \in DOMAIN fs \ DOMAIN fs0 : Inside(p, TestsRoot(projectRoot))
          /\ \A d \in dirs :
                d \in Ancestors(projectRoot) \/ Inside(d, TestsRoot(projectRoot))
    /\ (\A i \in 1..Len(uncoveredFiles) :
           Extname(AbsPath(projectRoot, uncoveredFiles[i])) \notin SupportedExts) =>
          /\ fs = fs0
          /\ dirs = Ancestors(projectRoot)
                    \cup UNION {Ancestors(Front(p)) : p \in DOMAIN fs0}

\* the call has returned a test it wrote beside __tests__, for a source outside
\* the project
C29_WrittenOutsideTests ==
    /\ phase = "returned"
    /\ Len(returned) = 1
    /\ ~Inside(returned[1], TestsRoot(projectRoot))
    /\ returned[1] \in DOMAIN fs \ DOMAIN fs0

====
